---- MODULE Spec2Model ----
(***************************************************************************)
(* State-machine model of the MMFS (5-Minute Market Force Scalping)        *)
(* strategy: MMFSStrategy (strategy/mmfs_strategy.py), its data model      *)
(* (models/mmfs_models.py) and the breadth service it calls                *)
(* (services/market_breadth_service.py).                                   *)
(*                                                                         *)
(* Units.  Wall-clock time is counted in half minutes since 09:00          *)
(* (time(9,15) = 30); prices and money are integers in paise (1/100        *)
(* rupee); percentages are integers in hundredths of a percent.  The       *)
(* brokerage costs of a trade, which the code computes in floating point,  *)
(* are truncated to whole paise.                                           *)
(*                                                                         *)
(* The data feeds are placeholders in the source: the model fills          *)
(* premarket_data and first_candle_data from small sets of values, where   *)
(* the source marks the place of the fetch, and the price feed calls       *)
(* update_price on the open positions between two iterations.  The fields  *)
(* `id` of a position and of a trade and the counters `opened` and         *)
(* `stop_runs` are labels added for stating the properties; no operation   *)
(* reads them.                                                             *)
(***************************************************************************)
EXTENDS Integers, Sequences, FiniteSets, TLC

VARIABLES
    now,                  \* datetime.now(), half minutes since 09:00
    pc,                   \* position of start(): idle, loop, sleep, finally, done
    strategy_config,      \* MMFSStrategyConfig the strategy was built with
    is_running,           \* MMFSStrategy.is_running
    premarket_collected,  \* MMFSStrategy.premarket_collected
    first_candle_tracked, \* MMFSStrategy.first_candle_tracked
    market_state,         \* MMFSStrategy.market_state (MMFSMarketState)
    premarket_data,       \* MMFSStrategy.premarket_data : symbol -> PreMarketData
    first_candle_data,    \* MMFSStrategy.first_candle_data : symbol -> candle
    positions,            \* MMFSStrategy.positions : symbol -> MMFSPosition
    completed_trades,     \* MMFSStrategy.completed_trades
    metrics,              \* MMFSStrategy.metrics (MMFSStrategyMetrics)
    breadth_service,      \* MarketBreadthService cache (last data, last update)
    opened,               \* number of positions opened so far (label)
    stop_runs,            \* number of completed runs of stop() (label)
    can_trade_result,     \* result of the last can_take_trade call
    returned              \* what the calls made from outside the strategy
                          \* were given and have returned (None before any)

vars == <<now, pc, strategy_config, is_running, premarket_collected,
          first_candle_tracked, market_state, premarket_data,
          first_candle_data, positions, completed_trades, metrics,
          breadth_service, opened, stop_runs, can_trade_result, returned>>

\* Python's None where a record is expected, and where a time is expected
None == [none |-> TRUE]
NoTime == -1

Min(a, b) == IF a <= b THEN a ELSE b
Max(a, b) == IF a >= b THEN a ELSE b
Abs(a) == IF a < 0 THEN -a ELSE a

RECURSIVE SetToSeq(_)
SetToSeq(S) ==
    IF S = {} THEN <<>>
    ELSE LET x == CHOOSE y \in S : TRUE IN <<x>> \o SetToSeq(S \ {x})

(***************************************************************************)
(* Wall clock                                                              *)
(***************************************************************************)
\* datetime.time(h, m) in half minutes since 09:00
time(h, m) == ((h - 9) * 60 + m) * 2

\* the largest advance of the clock between two iterations, in half minutes
MaxStep == 1

\* times at which start() may be called
StartTimes == {time(9, 14), time(9, 15)}

\* the clock is not modelled beyond this time
EndOfClock == time(9, 28)

(***************************************************************************)
(* Configuration (config/mmfs_config.py, as loaded by main.py)             *)
(***************************************************************************)
PORTFOLIO_VALUE == 5000              \* rupees
RISK_PER_TRADE == 100                \* 1.0 %
MAX_POSITIONS == 1
MAX_LOSS_PER_DAY_PCT == 100          \* 1.0 %
BREAK_EVEN_AFTER_MINUTES == 2
SMALL_GAP_THRESHOLD == 30            \* 0.30 %
MODERATE_GAP_THRESHOLD == 80         \* 0.80 %
SETUP1_MIN_GAP_PCT == 30             \* 0.30 %
SETUP1_MAX_REJECTION_WICK_PCT == 30  \* 30 % of the candle range
SETUP2_MIN_GAP_PCT == 50             \* 0.50 %
SETUP3_MIN_GAP_PCT == 30             \* 0.30 %
SETUP4_MAX_GAP_PCT == 30             \* 0.30 %
RISK_REWARD_RATIO == 150             \* 1.5
MIN_CONFIDENCE_SETUP1 == 70          \* 0.70

\* MMFSStrategyConfig as main.py's load_configuration builds it when the
\* environment sets nothing
MainConfig ==
    [ portfolio_value |-> PORTFOLIO_VALUE,
      risk_per_trade_pct |-> RISK_PER_TRADE,
      max_positions |-> MAX_POSITIONS,
      execution_start_minute |-> 15,
      execution_end_minute |-> 20,
      small_gap_threshold |-> SMALL_GAP_THRESHOLD,
      moderate_gap_threshold |-> MODERATE_GAP_THRESHOLD,
      max_trades_per_day |-> 2,
      max_loss_per_day_pct |-> MAX_LOSS_PER_DAY_PCT,
      stop_after_first_loss |-> TRUE,
      max_holding_minutes |-> 5,
      break_even_after_minutes |-> BREAK_EVEN_AFTER_MINUTES,
      setup1_min_gap_pct |-> SETUP1_MIN_GAP_PCT,
      setup1_require_vwap_above |-> TRUE,
      setup1_max_rejection_wick_pct |-> SETUP1_MAX_REJECTION_WICK_PCT,
      setup2_min_gap_pct |-> SETUP2_MIN_GAP_PCT,
      setup3_min_gap_pct |-> SETUP3_MIN_GAP_PCT,
      setup4_max_gap_pct |-> SETUP4_MAX_GAP_PCT,
      risk_reward_ratio |-> RISK_REWARD_RATIO,
      min_confidence_setup1 |-> MIN_CONFIDENCE_SETUP1 ]

\* The configurations a session is run with: main.py's; one trade per day
\* (as in get_mmfs_conservative_config) with a ten-minute holding period;
\* and three trades per day without the stop after the first loss (as in
\* get_mmfs_aggressive_config) with a two-minute holding period
ConfigSpace ==
    { MainConfig,
      [MainConfig EXCEPT !.max_trades_per_day = 1,
                         !.max_holding_minutes = 10],
      [MainConfig EXCEPT !.max_trades_per_day = 3,
                         !.max_holding_minutes = 2,
                         !.stop_after_first_loss = FALSE] }

\* self.symbols: the PRIMARY group of config/symbols.py
Symbols == {"NIFTY", "BANKNIFTY"}

(***************************************************************************)
(* MMFSMarketState                                                         *)
(***************************************************************************)
\* MMFSStrategy.__init__: the market state of a new strategy
InitMarketState ==
    [ advances |-> 0, declines |-> 0,
      ad_ratio |-> [num |-> 1, den |-> 1],
      breadth_classification |-> "NEUTRAL",
      breadth_strength |-> 5000,
      is_execution_window |-> FALSE,
      premarket_data_collected |-> FALSE,
      symbols_analyzed |-> 0,
      first_candle_complete |-> FALSE,
      trades_today |-> 0,
      daily_pnl |-> 0,
      max_trades_reached |-> FALSE,
      daily_loss_limit_reached |-> FALSE,
      stop_trading_till_945 |-> FALSE ]

\* a reason string: its text and the values formatted into it
Message(text, args) == [text |-> text, args |-> args]

\* `self.daily_pnl <= -max_loss_amount`, with
\* max_loss_amount = portfolio_value * (max_loss_pct / 100); daily_pnl is in
\* paise, so both sides are compared in units of 1/100 paise
LossLimitReached(daily_pnl, max_loss_pct, portfolio_value) ==
    daily_pnl * 100 <= -(portfolio_value * max_loss_pct)

\* a can_take_trade that tests the stop after the first loss before
\* everything else
can_take_trade_StopFirst(ms, max_trades, max_loss_pct, portfolio_value) ==
    IF ms.stop_trading_till_945
    THEN <<FALSE, Message("Stopped after first loss (till 9:45)", <<>>)>>
    ELSE IF ~ms.is_execution_window
    THEN <<FALSE, Message("Outside execution window", <<>>)>>
    ELSE IF ms.max_trades_reached \/ ms.trades_today >= max_trades
    THEN <<FALSE, Message("Max trades reached ({})", <<max_trades>>)>>
    ELSE IF LossLimitReached(ms.daily_pnl, max_loss_pct, portfolio_value)
    THEN <<FALSE, Message("Daily loss limit reached ({}%)", <<max_loss_pct>>)>>
    ELSE <<TRUE, Message("OK", <<>>)>>

\* MMFSMarketState.can_take_trade: <<can_trade, reason>>
can_take_trade(ms, max_trades, max_loss_pct, portfolio_value) ==
    IF ~ms.is_execution_window
    THEN <<FALSE, Message("Outside execution window", <<>>)>>
    ELSE IF ms.max_trades_reached \/ ms.trades_today >= max_trades
    THEN <<FALSE, Message("Max trades reached ({})", <<max_trades>>)>>
    ELSE IF LossLimitReached(ms.daily_pnl, max_loss_pct, portfolio_value)
    THEN <<FALSE, Message("Daily loss limit reached ({}%)", <<max_loss_pct>>)>>
    ELSE IF ms.stop_trading_till_945
    THEN <<FALSE, Message("Stopped after first loss (till 9:45)", <<>>)>>
    ELSE <<TRUE, Message("OK", <<>>)>>

\* an update that counts the trade and leaves the day's P&L alone
update_after_trade_CountOnly(ms, trade_pnl) ==
    [ms EXCEPT !.trades_today = @ + 1]

\* MMFSMarketState.update_after_trade
update_after_trade(ms, trade_pnl) ==
    [ms EXCEPT !.trades_today = @ + 1, !.daily_pnl = @ + trade_pnl]

(***************************************************************************)
(* PreMarketData, first candle, MMFSPosition, MMFSTradeResult              *)
(***************************************************************************)
\* PreMarketData.__post_init__: the gap in hundredths of a percent, kept as
\* the exact fraction num/den, and its type
PreMarketData(symbol, previous_close, today_open, prev_high) ==
    LET gap == IF previous_close > 0
               THEN [num |-> (today_open - previous_close) * 10000,
                     den |-> previous_close]
               ELSE [num |-> 0, den |-> 1]
        abs_num == Abs(gap.num)
    IN  [ symbol |-> symbol,
          previous_close |-> previous_close,
          today_open |-> today_open,
          prev_high |-> prev_high,
          gap_pct |-> gap,
          gap_type |-> IF previous_close > 0
                       THEN IF abs_num <= 30 * gap.den THEN "SMALL"
                            ELSE IF abs_num <= 80 * gap.den THEN "MODERATE"
                            ELSE "STRONG"
                       ELSE "NO_GAP" ]

\* float('inf'), the lowest_price of a new LONG position
INF == 99999999

\* MMFSPosition.__post_init__ (entry_minute is clamped to 0..4)
MMFSPosition(id, signal, quantity, entry_time, max_holding_minutes) ==
    [ id |-> id,
      symbol |-> signal.symbol,
      setup_type |-> signal.setup_type,
      signal_type |-> signal.signal_type,
      entry_price |-> signal.entry_price,
      quantity |-> quantity,
      stop_loss |-> signal.stop_loss,
      target_price |-> signal.target_price,
      entry_time |-> entry_time,
      entry_minute |-> Max(0, Min(4, (entry_time - time(9, 15)) \div 2)),
      max_holding_minutes |-> max_holding_minutes,
      current_price |-> 0,
      current_stop_loss |-> signal.stop_loss,
      highest_price |-> IF signal.signal_type = "LONG"
                        THEN signal.entry_price ELSE 0,
      lowest_price |-> IF signal.signal_type = "SHORT"
                       THEN signal.entry_price ELSE INF,
      unrealized_pnl |-> 0,
      max_favorable_excursion |-> 0,
      max_adverse_excursion |-> 0,
      moved_to_breakeven |-> FALSE,
      breakeven_time |-> NoTime ]

\* an update that also takes the new price as the entry price
update_price_Reprices(p, current_price) ==
    [p EXCEPT !.current_price = current_price,
              !.entry_price = current_price,
              !.unrealized_pnl = 0]

\* an update that measures the adverse move from the highest (for a SHORT
\* the lowest) price seen
update_price_FromExtreme(p, current_price) ==
    LET long == p.signal_type = "LONG"
        highest == IF long THEN Max(p.highest_price, current_price)
                   ELSE p.highest_price
        lowest == IF long THEN p.lowest_price
                  ELSE Min(p.lowest_price, current_price)
        favorable_move == IF long THEN current_price - p.entry_price
                          ELSE p.entry_price - current_price
        adverse_move == IF long THEN highest - current_price
                        ELSE current_price - lowest
    IN  [p EXCEPT
           !.current_price = current_price,
           !.highest_price = highest,
           !.lowest_price = lowest,
           !.max_favorable_excursion = Max(@, favorable_move),
           !.max_adverse_excursion = Max(@, adverse_move),
           !.unrealized_pnl = IF long
                              THEN (current_price - p.entry_price) * p.quantity
                              ELSE (p.entry_price - current_price) * p.quantity]

\* MMFSPosition.update_price
update_price(p, current_price) ==
    LET long == p.signal_type = "LONG"
        highest == IF long THEN Max(p.highest_price, current_price)
                   ELSE p.highest_price
        lowest == IF long THEN p.lowest_price
                  ELSE Min(p.lowest_price, current_price)
        favorable_move == IF long THEN current_price - p.entry_price
                          ELSE p.entry_price - current_price
        adverse_move == IF long
                        THEN p.entry_price - Min(p.lowest_price, current_price)
                        ELSE Max(p.highest_price, current_price) - p.entry_price
    IN  [p EXCEPT
           !.current_price = current_price,
           !.highest_price = highest,
           !.lowest_price = lowest,
           !.max_favorable_excursion = Max(@, favorable_move),
           !.max_adverse_excursion = Max(@, adverse_move),
           !.unrealized_pnl = IF long
                              THEN (current_price - p.entry_price) * p.quantity
                              ELSE (p.entry_price - current_price) * p.quantity]

\* MMFSPosition.get_holding_duration >= minutes, at wall-clock time t
HoldingAtLeast(p, t, minutes) == t - p.entry_time >= 2 * minutes

\* MMFSPosition.should_exit_by_time
should_exit_by_time(p, t) == HoldingAtLeast(p, t, p.max_holding_minutes)

\* MMFSTradeResult.__post_init__: the estimated costs of a trade, in paise:
\* brokerage 20 twice, STT 0.025 %, transaction charges 0.00325 %, GST 18 %
\* of (brokerage + transaction charges); value = exit_price * quantity
TotalCosts(value) == 4360 + ((value \div 100) * 28835) \div 1000000

\* MMFSTradeResult.__post_init__
MMFSTradeResult(p, exit_price, exit_time, exit_reason) ==
    LET gross == IF p.signal_type = "LONG"
                 THEN (exit_price - p.entry_price) * p.quantity
                 ELSE (p.entry_price - exit_price) * p.quantity
        net == gross - TotalCosts(Abs(exit_price * p.quantity))
    IN  [ id |-> p.id,
          symbol |-> p.symbol,
          setup_type |-> p.setup_type,
          signal_type |-> p.signal_type,
          entry_price |-> p.entry_price,
          exit_price |-> exit_price,
          quantity |-> p.quantity,
          entry_time |-> p.entry_time,
          exit_time |-> exit_time,
          exit_reason |-> exit_reason,
          gross_pnl |-> gross,
          net_pnl |-> net,
          max_favorable_excursion |-> p.max_favorable_excursion,
          max_adverse_excursion |-> p.max_adverse_excursion,
          signal_minute |-> p.entry_minute ]

is_winner(trade) == trade.net_pnl > 0
is_loser(trade) == trade.net_pnl < 0

(***************************************************************************)
(* MMFSStrategyMetrics                                                     *)
(***************************************************************************)
\* MMFSStrategyMetrics(): the metrics of a new strategy.  win_rate and
\* expectancy are kept as exact fractions num/den.
InitMetrics ==
    [ total_trades |-> 0, winning_trades |-> 0, losing_trades |-> 0,
      breakeven_trades |-> 0,
      setup1_trades |-> 0, setup1_wins |-> 0,
      setup2_trades |-> 0, setup2_wins |-> 0,
      setup3_trades |-> 0, setup3_wins |-> 0,
      setup4_trades |-> 0, setup4_wins |-> 0,
      gross_pnl |-> 0, net_pnl |-> 0,
      largest_win |-> 0, largest_loss |-> 0,
      win_rate |-> [num |-> 0, den |-> 1],
      expectancy |-> [num |-> 0, den |-> 1],
      trades_by_minute |-> [m \in 0..4 |-> 0],
      target_exits |-> 0, stop_exits |-> 0, time_exits |-> 0,
      breakeven_exits |-> 0 ]

\* MMFSStrategyMetrics._recalculate_metrics (win rate and expectancy)
_recalculate_metrics(m) ==
    [m EXCEPT
       !.win_rate = IF m.total_trades > 0
                    THEN [num |-> m.winning_trades * 100, den |-> m.total_trades]
                    ELSE [num |-> 0, den |-> 1],
       !.expectancy = IF m.total_trades > 0
                      THEN [num |-> m.net_pnl, den |-> m.total_trades]
                      ELSE [num |-> 0, den |-> 1]]

\* an update that takes a trade with a gross profit for a winner
update_from_trade_GrossWinners(m, trade) ==
    LET win == trade.gross_pnl > 0
        lose == is_loser(trade)
        Setup(n) == trade.setup_type = n
        Wins(n) == IF Setup(n) /\ win THEN 1 ELSE 0
        Count(n) == IF Setup(n) THEN 1 ELSE 0
        Reason(r) == IF trade.exit_reason = r THEN 1 ELSE 0
    IN  _recalculate_metrics(
        [m EXCEPT
           !.total_trades = @ + 1,
           !.winning_trades = IF win THEN @ + 1 ELSE @,
           !.largest_win = IF win THEN Max(@, trade.net_pnl) ELSE @,
           !.losing_trades = IF ~win /\ lose THEN @ + 1 ELSE @,
           !.largest_loss = IF ~win /\ lose THEN Min(@, trade.net_pnl) ELSE @,
           !.breakeven_trades = IF ~win /\ ~lose THEN @ + 1 ELSE @,
           !.setup1_trades = @ + Count("GAP_UP_BREAKOUT"),
           !.setup1_wins = @ + Wins("GAP_UP_BREAKOUT"),
           !.setup2_trades = @ + Count("GAP_UP_FAILURE"),
           !.setup2_wins = @ + Wins("GAP_UP_FAILURE"),
           !.setup3_trades = @ + Count("GAP_DOWN_RECOVERY"),
           !.setup3_wins = @ + Wins("GAP_DOWN_RECOVERY"),
           !.setup4_trades = @ + Count("RANGE_BREAKDOWN"),
           !.setup4_wins = @ + Wins("RANGE_BREAKDOWN"),
           !.gross_pnl = @ + trade.gross_pnl,
           !.net_pnl = @ + trade.net_pnl,
           !.target_exits = @ + Reason("TARGET"),
           !.stop_exits = @ + Reason("STOP_LOSS"),
           !.time_exits = @ + Reason("TIME_BASED"),
           !.breakeven_exits = @ + Reason("BREAKEVEN"),
           !.trades_by_minute =
               IF trade.signal_minute \in DOMAIN @
               THEN [@ EXCEPT ![trade.signal_minute] = @ + 1]
               ELSE @])

\* MMFSStrategyMetrics.update_from_trade
update_from_trade(m, trade) ==
    LET win == is_winner(trade)
        lose == is_loser(trade)
        Setup(n) == trade.setup_type = n
        Wins(n) == IF Setup(n) /\ win THEN 1 ELSE 0
        Count(n) == IF Setup(n) THEN 1 ELSE 0
        Reason(r) == IF trade.exit_reason = r THEN 1 ELSE 0
    IN  _recalculate_metrics(
        [m EXCEPT
           !.total_trades = @ + 1,
           !.winning_trades = IF win THEN @ + 1 ELSE @,
           !.largest_win = IF win THEN Max(@, trade.net_pnl) ELSE @,
           !.losing_trades = IF ~win /\ lose THEN @ + 1 ELSE @,
           !.largest_loss = IF ~win /\ lose THEN Min(@, trade.net_pnl) ELSE @,
           !.breakeven_trades = IF ~win /\ ~lose THEN @ + 1 ELSE @,
           !.setup1_trades = @ + Count("GAP_UP_BREAKOUT"),
           !.setup1_wins = @ + Wins("GAP_UP_BREAKOUT"),
           !.setup2_trades = @ + Count("GAP_UP_FAILURE"),
           !.setup2_wins = @ + Wins("GAP_UP_FAILURE"),
           !.setup3_trades = @ + Count("GAP_DOWN_RECOVERY"),
           !.setup3_wins = @ + Wins("GAP_DOWN_RECOVERY"),
           !.setup4_trades = @ + Count("RANGE_BREAKDOWN"),
           !.setup4_wins = @ + Wins("RANGE_BREAKDOWN"),
           !.gross_pnl = @ + trade.gross_pnl,
           !.net_pnl = @ + trade.net_pnl,
           !.target_exits = @ + Reason("TARGET"),
           !.stop_exits = @ + Reason("STOP_LOSS"),
           !.time_exits = @ + Reason("TIME_BASED"),
           !.breakeven_exits = @ + Reason("BREAKEVEN"),
           !.trades_by_minute =
               IF trade.signal_minute \in DOMAIN @
               THEN [@ EXCEPT ![trade.signal_minute] = @ + 1]
               ELSE @])

(***************************************************************************)
(* MarketBreadthService                                                    *)
(***************************************************************************)
\* MarketBreadthService.__init__
InitBreadthService == [last_breadth_data |-> None, last_update_time |-> NoTime]

\* MarketBreadthService._is_cache_valid (cache_duration_seconds = 60)
_is_cache_valid(svc, t) ==
    /\ svc.last_breadth_data # None
    /\ svc.last_update_time # NoTime
    /\ t - svc.last_update_time < 2

\* MarketBreadthService._get_fallback_breadth_data
_get_fallback_breadth_data(svc) ==
    IF svc.last_breadth_data # None
    THEN svc.last_breadth_data
    ELSE [advances |-> 100, declines |-> 100]

\* a fetch that forgets the last data when the request fails
fetch_advance_decline_data_ForgetsOnFailure(svc, t, response) ==
    IF _is_cache_valid(svc, t)
    THEN <<svc, svc.last_breadth_data>>
    ELSE IF response # None
    THEN <<[last_breadth_data |-> response, last_update_time |-> t], response>>
    ELSE <<[last_breadth_data |-> None, last_update_time |-> NoTime],
           [advances |-> 100, declines |-> 100]>>

\* MarketBreadthService.fetch_advance_decline_data: <<service, data>>, where
\* response is the parsed NSE answer or None when the request fails
fetch_advance_decline_data(svc, t, response) ==
    IF _is_cache_valid(svc, t)
    THEN <<svc, svc.last_breadth_data>>
    ELSE IF response # None
    THEN <<[last_breadth_data |-> response, last_update_time |-> t], response>>
    ELSE <<svc, _get_fallback_breadth_data(svc)>>

\* a ratio computed from the counts as they come
calculate_breadth_ratio_Unguarded(breadth_data) ==
    << [num |-> breadth_data.advances, den |-> breadth_data.declines],
       IF 2 * breadth_data.advances >= 3 * breadth_data.declines THEN "BULLISH"
       ELSE IF 3 * breadth_data.advances <= 2 * breadth_data.declines THEN "BEARISH"
       ELSE "NEUTRAL" >>

\* MarketBreadthService.calculate_breadth_ratio: <<ad_ratio, classification>>
calculate_breadth_ratio(breadth_data) ==
    LET declines == IF breadth_data.declines = 0 THEN 1 ELSE breadth_data.declines
        advances == IF breadth_data.advances = 0 THEN 1 ELSE breadth_data.advances
    IN  << [num |-> advances, den |-> declines],
           IF 2 * advances >= 3 * declines THEN "BULLISH"
           ELSE IF 3 * advances <= 2 * declines THEN "BEARISH"
           ELSE "NEUTRAL" >>

\* MarketBreadthService.get_market_breadth (threshold 1.5), on fetched data
get_market_breadth(breadth_data) ==
    LET r == calculate_breadth_ratio(breadth_data)[1]
    IN  IF 2 * r.num >= 3 * r.den THEN "BULLISH"
        ELSE IF 3 * r.num <= 2 * r.den THEN "BEARISH"
        ELSE "NEUTRAL"

\* MarketBreadthService.get_breadth_strength_score, on fetched data, in
\* hundredths of a point (rounded down)
get_breadth_strength_score(breadth_data) ==
    LET r == calculate_breadth_ratio(breadth_data)[1]
        score == IF r.num >= r.den
                 THEN 5000 + Min(((r.num - r.den) * 2500) \div r.den, 5000)
                 ELSE ((r.num * 100 - 33 * r.den) * 5000) \div (67 * r.den)
    IN  Max(0, Min(10000, score))

(***************************************************************************)
(* Setup evaluation (MMFSStrategy)                                         *)
(***************************************************************************)
\* gap_pct >= k and gap_pct > k, k in hundredths of a percent
GapGE(premarket, k) == premarket.gap_pct.num >= k * premarket.gap_pct.den
GapGT(premarket, k) == premarket.gap_pct.num > k * premarket.gap_pct.den

_should_evaluate_setup1(premarket, ms, cfg) ==
    /\ GapGE(premarket, cfg.setup1_min_gap_pct)
    /\ ms.breadth_classification = "BULLISH"

\* a precondition of setup 2 that does not look at the breadth
_should_evaluate_setup2_AnyBreadth(premarket, ms, cfg) ==
    GapGE(premarket, cfg.setup2_min_gap_pct)

_should_evaluate_setup2(premarket, ms, cfg) ==
    /\ GapGE(premarket, cfg.setup2_min_gap_pct)
    /\ ms.breadth_classification \in {"BEARISH", "NEUTRAL"}

_should_evaluate_setup3(premarket, ms, cfg) ==
    /\ premarket.gap_pct.num <= -cfg.setup3_min_gap_pct * premarket.gap_pct.den
    /\ ms.breadth_classification = "BULLISH"

_should_evaluate_setup4(premarket, ms, cfg) ==
    /\ Abs(premarket.gap_pct.num) < cfg.setup4_max_gap_pct * premarket.gap_pct.den
    /\ ms.breadth_classification = "NEUTRAL"

\* MMFSStrategy._calculate_setup1_confidence, in hundredths
_calculate_setup1_confidence(premarket, first_candle, ms) ==
    LET gap == IF GapGT(premarket, 50) THEN 15
               ELSE IF GapGT(premarket, 30) THEN 10 ELSE 0
        breadth == IF ms.breadth_strength > 7000 THEN 15
                   ELSE IF ms.breadth_strength > 6000 THEN 10 ELSE 0
        volume == IF first_candle.volume_ratio > 200 THEN 10
                  ELSE IF first_candle.volume_ratio > 150 THEN 5 ELSE 0
    IN  Min(50 + gap + breadth + volume, 100)

\* MMFSSignal.__post_init__ for the signal of setup 1
MMFSSignal(symbol, setup_type, signal_type, entry_price, stop_loss, target_price, confidence, t) ==
    [ symbol |-> symbol,
      setup_type |-> setup_type,
      signal_type |-> signal_type,
      entry_price |-> entry_price,
      stop_loss |-> stop_loss,
      target_price |-> target_price,
      confidence |-> confidence,
      risk_amount |-> Abs(entry_price - stop_loss),
      reward_amount |-> Abs(target_price - entry_price),
      signal_minute |-> Max(0, Min(4, (t - time(9, 15)) \div 2)) ]

\* an evaluation of setup 1 without the VWAP test
_evaluate_setup1_gap_up_breakout_NoVwapTest(symbol, premarket, fcd, ms, cfg, t) ==
    IF fcd[symbol] = None THEN None
    ELSE
    LET first_candle == fcd[symbol]
        candle_range == first_candle.high - first_candle.low
        upper_wick == first_candle.high - Max(first_candle.open, first_candle.close)
        entry_price == first_candle.high
        stop_loss == first_candle.low
        rr_target == entry_price
                       + ((entry_price - stop_loss) * cfg.risk_reward_ratio) \div 100
        target_price == Min(rr_target, premarket.prev_high)
        confidence == _calculate_setup1_confidence(premarket, first_candle, ms)
    IN  IF candle_range <= 0 THEN None
        ELSE IF upper_wick * 100 > cfg.setup1_max_rejection_wick_pct * candle_range
        THEN None
        ELSE IF confidence < cfg.min_confidence_setup1 THEN None
        ELSE MMFSSignal(symbol, "GAP_UP_BREAKOUT", "LONG", entry_price,
                        stop_loss, target_price, confidence, t)

\* an evaluation of setup 1 whose target is the risk-reward target alone
_evaluate_setup1_gap_up_breakout_RRTarget(symbol, premarket, fcd, ms, cfg, t) ==
    IF fcd[symbol] = None THEN None
    ELSE
    LET first_candle == fcd[symbol]
        candle_range == first_candle.high - first_candle.low
        upper_wick == first_candle.high - Max(first_candle.open, first_candle.close)
        entry_price == first_candle.high
        stop_loss == first_candle.low
        rr_target == entry_price
                       + ((entry_price - stop_loss) * cfg.risk_reward_ratio) \div 100
        confidence == _calculate_setup1_confidence(premarket, first_candle, ms)
    IN  IF cfg.setup1_require_vwap_above /\ first_candle.close <= first_candle.vwap
        THEN None
        ELSE IF candle_range <= 0 THEN None
        ELSE IF upper_wick * 100 > cfg.setup1_max_rejection_wick_pct * candle_range
        THEN None
        ELSE IF confidence < cfg.min_confidence_setup1 THEN None
        ELSE MMFSSignal(symbol, "GAP_UP_BREAKOUT", "LONG", entry_price,
                        stop_loss, rr_target, confidence, t)

\* MMFSStrategy._evaluate_setup1_gap_up_breakout: a signal or None
_evaluate_setup1_gap_up_breakout(symbol, premarket, fcd, ms, cfg, t) ==
    IF fcd[symbol] = None THEN None
    ELSE
    LET first_candle == fcd[symbol]
        candle_range == first_candle.high - first_candle.low
        upper_wick == first_candle.high - Max(first_candle.open, first_candle.close)
        entry_price == first_candle.high
        stop_loss == first_candle.low
        rr_target == entry_price
                       + ((entry_price - stop_loss) * cfg.risk_reward_ratio) \div 100
        target_price == Min(rr_target, premarket.prev_high)
        confidence == _calculate_setup1_confidence(premarket, first_candle, ms)
    IN  IF cfg.setup1_require_vwap_above /\ first_candle.close <= first_candle.vwap
        THEN None
        ELSE IF candle_range <= 0 THEN None
        ELSE IF upper_wick * 100 > cfg.setup1_max_rejection_wick_pct * candle_range
        THEN None
        ELSE IF confidence < cfg.min_confidence_setup1 THEN None
        ELSE MMFSSignal(symbol, "GAP_UP_BREAKOUT", "LONG", entry_price,
                        stop_loss, target_price, confidence, t)

\* _evaluate_setup2_gap_up_failure, _evaluate_setup3_gap_down_recovery and
\* _evaluate_setup4_range_breakdown return None
_evaluate_setup_stub(symbol, premarket) == None

\* the setup dispatch of MMFSStrategy._evaluate_setups for one symbol
EvaluateSymbol(symbol, premarket, fcd, ms, cfg, t) ==
    IF _should_evaluate_setup1(premarket, ms, cfg)
    THEN _evaluate_setup1_gap_up_breakout(symbol, premarket, fcd, ms, cfg, t)
    ELSE IF _should_evaluate_setup2(premarket, ms, cfg)
    THEN _evaluate_setup_stub(symbol, premarket)
    ELSE IF _should_evaluate_setup3(premarket, ms, cfg)
    THEN _evaluate_setup_stub(symbol, premarket)
    ELSE IF _should_evaluate_setup4(premarket, ms, cfg)
    THEN _evaluate_setup_stub(symbol, premarket)
    ELSE None

(***************************************************************************)
(* MMFSStrategy: the strategy object is handled as the record `Self` of    *)
(* its fields, so that the calls of one loop iteration compose.            *)
(***************************************************************************)
\* the order of self.symbols (main.py builds it from the PRIMARY group)
symbols == <<"NIFTY", "BANKNIFTY">>

Self ==
    [ is_running |-> is_running,
      premarket_collected |-> premarket_collected,
      first_candle_tracked |-> first_candle_tracked,
      market_state |-> market_state,
      premarket_data |-> premarket_data,
      first_candle_data |-> first_candle_data,
      positions |-> positions,
      completed_trades |-> completed_trades,
      metrics |-> metrics,
      breadth_service |-> breadth_service,
      opened |-> opened,
      stop_runs |-> stop_runs,
      can_trade_result |-> can_trade_result ]

\* the fields of `s` become the next state of the strategy object
Commit(s) ==
    /\ is_running' = s.is_running
    /\ premarket_collected' = s.premarket_collected
    /\ first_candle_tracked' = s.first_candle_tracked
    /\ market_state' = s.market_state
    /\ premarket_data' = s.premarket_data
    /\ first_candle_data' = s.first_candle_data
    /\ positions' = s.positions
    /\ completed_trades' = s.completed_trades
    /\ metrics' = s.metrics
    /\ breadth_service' = s.breadth_service
    /\ opened' = s.opened
    /\ stop_runs' = s.stop_runs
    /\ can_trade_result' = s.can_trade_result
    /\ UNCHANGED returned

\* the time predicates of MMFSStrategy
_is_premarket_time(t) == time(9, 0) <= t /\ t < time(9, 15)
_is_market_open(t) == t >= time(9, 15)
_is_execution_window(t) == time(9, 15) <= t /\ t < time(9, 20)
_is_first_candle_time(t) == time(9, 15) <= t /\ t <= time(9, 16)
\* a signal window that opens with the market
_is_signal_generation_time_FromOpen(t) == time(9, 15) <= t /\ t < time(9, 20)
_is_signal_generation_time(t) == time(9, 16) <= t /\ t < time(9, 20)

\* a membership test that never finds the symbol
InPositions_Never(s, symbol) == FALSE

\* `symbol in self.positions`
InPositions(s, symbol) == s.positions[symbol] # None

\* the keys of self.positions in dict order: the order of insertion, which
\* is the order in which the positions were opened
PositionKeys(s) ==
    SortSeq(SetToSeq({x \in Symbols : s.positions[x] # None}),
            LAMBDA a, b : s.positions[a].id < s.positions[b].id)

\* MMFSStrategy._collect_premarket_data; fetched[x] is the PreMarketData
\* built for symbol x, or None when the fetch for x fails
_collect_premarket_data(s, fetched) ==
    [s EXCEPT
       !.premarket_data = fetched,
       !.market_state.symbols_analyzed =
           Cardinality({x \in Symbols : fetched[x] # None})]

\* MMFSStrategy._update_market_breadth; responses are the answers of the
\* breadth source to the three fetches the method causes
_update_market_breadth(s, t, responses) ==
    LET f1 == fetch_advance_decline_data(s.breadth_service, t, responses[1])
        breadth_data == f1[2]
        ad_ratio == calculate_breadth_ratio(breadth_data)[1]
        f2 == fetch_advance_decline_data(f1[1], t, responses[2])
        strength == get_breadth_strength_score(f2[2])
        f3 == fetch_advance_decline_data(f2[1], t, responses[3])
    IN  [s EXCEPT
           !.breadth_service = f3[1],
           !.market_state.advances = breadth_data.advances,
           !.market_state.declines = breadth_data.declines,
           !.market_state.ad_ratio = ad_ratio,
           !.market_state.breadth_classification = get_market_breadth(f3[2]),
           !.market_state.breadth_strength = strength]

\* MMFSStrategy._track_first_candle; candles[x] is the current one-minute
\* candle of symbol x, or None when the fetch for x fails
_track_first_candle(s, candles) ==
    IF s.market_state.first_candle_complete THEN s
    ELSE [s EXCEPT !.first_candle_data =
              [x \in Symbols |-> IF candles[x] # None THEN candles[x] ELSE @[x]]]

\* MMFSStrategy._execute_signal
\* an execution that rounds the quantity up
_execute_signal_RoundsUp(s, signal, cfg, t) ==
    LET risk_amount == cfg.portfolio_value * cfg.risk_per_trade_pct
        price_risk == Abs(signal.entry_price - signal.stop_loss)
    IN  IF price_risk > 0
        THEN LET quantity == (risk_amount + 100 * price_risk - 1)
                                \div (100 * price_risk)
                 position == MMFSPosition(s.opened + 1, signal, quantity, t,
                                          cfg.max_holding_minutes)
             IN  [s EXCEPT !.positions[signal.symbol] = position,
                           !.opened = @ + 1]
        ELSE s

_execute_signal(s, signal, cfg, t) ==
    LET risk_amount == cfg.portfolio_value * cfg.risk_per_trade_pct
        price_risk == Abs(signal.entry_price - signal.stop_loss)
    IN  IF price_risk > 0
        THEN LET quantity == risk_amount \div (100 * price_risk)
                 position == MMFSPosition(s.opened + 1, signal, quantity, t,
                                          cfg.max_holding_minutes)
             IN  [s EXCEPT !.positions[signal.symbol] = position,
                           !.opened = @ + 1]
        ELSE s

\* MMFSStrategy._evaluate_setups: the loop over premarket_data.items()
RECURSIVE EvaluateLoop(_, _, _, _)
EvaluateLoop(s, todo, cfg, t) ==
    IF todo = <<>> THEN s
    ELSE
    LET symbol == Head(todo)
        ct == can_take_trade(s.market_state, cfg.max_trades_per_day,
                             cfg.max_loss_per_day_pct, cfg.portfolio_value)
        s1 == [s EXCEPT !.can_trade_result = ct]
        signal == EvaluateSymbol(symbol, s.premarket_data[symbol],
                                 s.first_candle_data, s.market_state, cfg, t)
    IN  IF InPositions(s, symbol) THEN EvaluateLoop(s, Tail(todo), cfg, t)
        ELSE IF ~ct[1] THEN s1
        ELSE IF signal # None
        THEN EvaluateLoop(_execute_signal(s1, signal, cfg, t), Tail(todo), cfg, t)
        ELSE EvaluateLoop(s1, Tail(todo), cfg, t)

_evaluate_setups(s, cfg, t) ==
    EvaluateLoop(s, SelectSeq(symbols, LAMBDA x : s.premarket_data[x] # None),
                 cfg, t)

\* an exit that records the trade and leaves the position in self.positions
_exit_position_KeepsPosition(s, symbol, exit_reason, cfg, t) ==
    LET position == s.positions[symbol]
        exit_price == IF position.current_price > 0
                      THEN position.current_price ELSE position.entry_price
        trade == MMFSTradeResult(position, exit_price, t, exit_reason)
    IN  [s EXCEPT
           !.metrics = update_from_trade(@, trade),
           !.completed_trades = Append(@, trade),
           !.market_state = update_after_trade(@, trade.net_pnl)]

\* an exit that sets stop_trading_till_945 after any losing trade
_exit_position_AnyLoss(s, symbol, exit_reason, cfg, t) ==
    LET position == s.positions[symbol]
        exit_price == IF position.current_price > 0
                      THEN position.current_price ELSE position.entry_price
        trade == MMFSTradeResult(position, exit_price, t, exit_reason)
        ms == update_after_trade(s.market_state, trade.net_pnl)
    IN  [s EXCEPT
           !.metrics = update_from_trade(@, trade),
           !.completed_trades = Append(@, trade),
           !.positions[symbol] = None,
           !.market_state =
               IF cfg.stop_after_first_loss /\ is_loser(trade)
               THEN [ms EXCEPT !.stop_trading_till_945 = TRUE]
               ELSE ms]

\* MMFSStrategy._exit_position
_exit_position(s, symbol, exit_reason, cfg, t) ==
    LET position == s.positions[symbol]
        exit_price == IF position.current_price > 0
                      THEN position.current_price ELSE position.entry_price
        trade == MMFSTradeResult(position, exit_price, t, exit_reason)
        ms == update_after_trade(s.market_state, trade.net_pnl)
    IN  [s EXCEPT
           !.metrics = update_from_trade(@, trade),
           !.completed_trades = Append(@, trade),
           !.positions[symbol] = None,
           !.market_state =
               IF cfg.stop_after_first_loss /\ is_loser(trade)
                  /\ ms.trades_today = 1
               THEN [ms EXCEPT !.stop_trading_till_945 = TRUE]
               ELSE ms]

\* MMFSStrategy._should_move_to_breakeven
_should_move_to_breakeven(position) ==
    IF position.signal_type = "LONG"
    THEN position.current_price > position.entry_price
    ELSE position.current_price < position.entry_price

\* a move that puts the stop as far beyond the initial stop as the entry is
\* before it
_move_to_breakeven_Loosens(s, symbol, t) ==
    [s EXCEPT !.positions[symbol].current_stop_loss =
                  2 * s.positions[symbol].stop_loss - s.positions[symbol].entry_price,
              !.positions[symbol].moved_to_breakeven = TRUE,
              !.positions[symbol].breakeven_time = t]

\* MMFSStrategy._move_to_breakeven
_move_to_breakeven(s, symbol, t) ==
    [s EXCEPT !.positions[symbol].current_stop_loss = s.positions[symbol].entry_price,
              !.positions[symbol].moved_to_breakeven = TRUE,
              !.positions[symbol].breakeven_time = t]

\* a loop body that tries the breakeven move before the time-based exit
MonitorPosition_BreakevenFirst(s, symbol, cfg, t) ==
    LET position == s.positions[symbol]
    IN  IF /\ ~position.moved_to_breakeven
           /\ HoldingAtLeast(position, t, cfg.break_even_after_minutes)
           /\ _should_move_to_breakeven(position)
        THEN _move_to_breakeven(s, symbol, t)
        ELSE IF should_exit_by_time(position, t)
        THEN _exit_position(s, symbol, "TIME_BASED", cfg, t)
        ELSE s

\* a loop body that moves to breakeven whether or not it has done so before
MonitorPosition_MovesAgain(s, symbol, cfg, t) ==
    LET position == s.positions[symbol]
    IN  IF should_exit_by_time(position, t)
        THEN _exit_position(s, symbol, "TIME_BASED", cfg, t)
        ELSE IF /\ HoldingAtLeast(position, t, cfg.break_even_after_minutes)
                /\ _should_move_to_breakeven(position)
        THEN _move_to_breakeven(s, symbol, t)
        ELSE s

\* the body of the loop of MMFSStrategy._monitor_positions for one position
MonitorPosition(s, symbol, cfg, t) ==
    LET position == s.positions[symbol]
    IN  IF should_exit_by_time(position, t)
        THEN _exit_position(s, symbol, "TIME_BASED", cfg, t)
        ELSE IF /\ ~position.moved_to_breakeven
                /\ HoldingAtLeast(position, t, cfg.break_even_after_minutes)
                /\ _should_move_to_breakeven(position)
        THEN _move_to_breakeven(s, symbol, t)
        ELSE s

RECURSIVE MonitorLoop(_, _, _, _)
MonitorLoop(s, todo, cfg, t) ==
    IF todo = <<>> THEN s
    ELSE MonitorLoop(MonitorPosition(s, Head(todo), cfg, t), Tail(todo), cfg, t)

\* MMFSStrategy._monitor_positions
_monitor_positions(s, cfg, t) == MonitorLoop(s, PositionKeys(s), cfg, t)

RECURSIVE StopLoop(_, _, _, _)
StopLoop(s, todo, cfg, t) ==
    IF todo = <<>> THEN s
    ELSE StopLoop(_exit_position(s, Head(todo), "STRATEGY_STOP", cfg, t),
                  Tail(todo), cfg, t)

\* a stop that only clears is_running
stop_LeavesPositions(s, cfg, t) ==
    [s EXCEPT !.is_running = FALSE, !.stop_runs = @ + 1]

\* MMFSStrategy.stop
stop(s, cfg, t) ==
    LET s1 == StopLoop([s EXCEPT !.is_running = FALSE], PositionKeys(s), cfg, t)
    IN  [s1 EXCEPT !.stop_runs = @ + 1]

(***************************************************************************)
(* Market data supplied by the feeds                                       *)
(***************************************************************************)
\* previous close 1000.00; open 1004.00 (gap +0.40 %) or 1001.00 (+0.10 %)
PreMarketChoices(x) ==
    { None,
      PreMarketData(x, 100000, 100400, 101000),
      PreMarketData(x, 100000, 100100, 101000) }

\* the fetch fails, or the first candle closes above VWAP with a small
\* upper wick
CandleChoices ==
    { None,
      [open |-> 100450, high |-> 100800, low |-> 100400, close |-> 100700,
       vwap |-> 100500, volume_ratio |-> 100] }

\* answers of the breadth source: failure, or 150 advances to 100 declines
BreadthResponses ==
    { None,
      [advances |-> 150, declines |-> 100] }

\* prices a position is updated with: its stop, and a price above its
\* target
PriceChoices == {100400, 101600}

(***************************************************************************)
(* MMFSStrategy.start                                                      *)
(***************************************************************************)
\* an iteration whose step 1 does not test premarket_collected
LoopPrefix_Recollects(s, cfg, t, fetched, responses, candles, k) ==
    LET s1 == IF _is_premarket_time(t)
              THEN [_collect_premarket_data(s, fetched)
                      EXCEPT !.premarket_collected = TRUE]
              ELSE s
        s2 == IF _is_market_open(t) /\ ~s1.market_state.premarket_data_collected
              THEN [_update_market_breadth(s1, t, responses)
                      EXCEPT !.market_state.premarket_data_collected = TRUE]
              ELSE s1
        s3a == IF _is_first_candle_time(t)
               THEN _track_first_candle(s2, candles) ELSE s2
        s3 == IF /\ _is_first_candle_time(t)
                 /\ t >= time(9, 16) /\ ~s3a.first_candle_tracked
              THEN [s3a EXCEPT !.market_state.first_candle_complete = TRUE,
                               !.first_candle_tracked = TRUE]
              ELSE s3a
        s4 == IF _is_execution_window(t)
              THEN [s3 EXCEPT !.market_state.is_execution_window = TRUE]
              ELSE s3
        s5 == IF _is_signal_generation_time(t)
              THEN _evaluate_setups(s4, cfg, t) ELSE s4
        s6 == IF \E x \in Symbols : s5.positions[x] # None
              THEN _monitor_positions(s5, cfg, t) ELSE s5
    IN  CASE k = 0 -> s
          [] k = 1 -> s1
          [] k = 2 -> s2
          [] k = 3 -> s3
          [] k = 4 -> s4
          [] k = 5 -> s5
          [] OTHER -> s6

\* the first k of the steps 1 to 6 of one iteration of the main loop, at
\* wall-clock time t
LoopPrefix(s, cfg, t, fetched, responses, candles, k) ==
    LET s1 == IF _is_premarket_time(t) /\ ~s.premarket_collected
              THEN [_collect_premarket_data(s, fetched)
                      EXCEPT !.premarket_collected = TRUE]
              ELSE s
        s2 == IF _is_market_open(t) /\ ~s1.market_state.premarket_data_collected
              THEN [_update_market_breadth(s1, t, responses)
                      EXCEPT !.market_state.premarket_data_collected = TRUE]
              ELSE s1
        s3a == IF _is_first_candle_time(t)
               THEN _track_first_candle(s2, candles) ELSE s2
        s3 == IF /\ _is_first_candle_time(t)
                 /\ t >= time(9, 16) /\ ~s3a.first_candle_tracked
              THEN [s3a EXCEPT !.market_state.first_candle_complete = TRUE,
                               !.first_candle_tracked = TRUE]
              ELSE s3a
        s4 == IF _is_execution_window(t)
              THEN [s3 EXCEPT !.market_state.is_execution_window = TRUE]
              ELSE s3
        s5 == IF _is_signal_generation_time(t)
              THEN _evaluate_setups(s4, cfg, t) ELSE s4
        s6 == IF \E x \in Symbols : s5.positions[x] # None
              THEN _monitor_positions(s5, cfg, t) ELSE s5
    IN  CASE k = 0 -> s
          [] k = 1 -> s1
          [] k = 2 -> s2
          [] k = 3 -> s3
          [] k = 4 -> s4
          [] k = 5 -> s5
          [] OTHER -> s6

\* steps 1 to 6 of one iteration of the main loop, at wall-clock time t
LoopBody(s, cfg, t, fetched, responses, candles) ==
    LoopPrefix(s, cfg, t, fetched, responses, candles, 6)

\* a test of the session end that never succeeds
TradingDayComplete_Never(t) == FALSE

\* step 7: `if current_time > time(9, 25): break`
TradingDayComplete(t) == t > time(9, 25)

\* the inputs an iteration at time t reads from the feeds
FetchedFor(s, t) ==
    IF _is_premarket_time(t) /\ ~s.premarket_collected
    THEN {f \in [Symbols -> UNION {PreMarketChoices(x) : x \in Symbols}] :
             \A x \in Symbols : f[x] \in PreMarketChoices(x)}
    ELSE {[x \in Symbols |-> None]}

ResponsesFor(s, t) ==
    IF _is_market_open(t) /\ ~s.market_state.premarket_data_collected
    THEN BreadthResponses \X BreadthResponses \X BreadthResponses
    ELSE {<<None, None, None>>}

CandlesFor(s, t) ==
    IF _is_first_candle_time(t) /\ ~s.market_state.first_candle_complete
    THEN [Symbols -> CandleChoices]
    ELSE {[x \in Symbols |-> None]}

\* start(): up to the first test of the loop condition
Start ==
    /\ pc = "idle"
    /\ is_running' = TRUE
    /\ pc' = "loop"
    /\ UNCHANGED <<now, strategy_config, premarket_collected,
                   first_candle_tracked, market_state, premarket_data,
                   first_candle_data, positions, completed_trades, metrics,
                   breadth_service, opened, stop_runs, can_trade_result,
                   returned>>

\* one iteration of `while self.is_running`, up to the break or the sleep
Iterate ==
    /\ pc = "loop"
    /\ is_running
    /\ \E fetched \in FetchedFor(Self, now),
          responses \in ResponsesFor(Self, now),
          candles \in CandlesFor(Self, now) :
           Commit(LoopBody(Self, strategy_config, now, fetched, responses, candles))
    /\ pc' = IF TradingDayComplete(now) THEN "finally" ELSE "sleep"
    /\ UNCHANGED <<now, strategy_config>>

\* the loop condition fails: is_running was set to False
LoopExit ==
    /\ pc = "loop"
    /\ ~is_running
    /\ pc' = "finally"
    /\ UNCHANGED <<now, strategy_config, is_running, premarket_collected,
                   first_candle_tracked, market_state, premarket_data,
                   first_candle_data, positions, completed_trades, metrics,
                   breadth_service, opened, stop_runs, can_trade_result,
                   returned>>

\* `await asyncio.sleep(1)` returns: the wall clock has advanced
Sleep ==
    /\ pc = "sleep"
    /\ \E d \in 1..MaxStep :
         /\ now + d <= EndOfClock
         /\ now' = now + d
    /\ pc' = "loop"
    /\ UNCHANGED <<strategy_config, is_running, premarket_collected,
                   first_candle_tracked, market_state, premarket_data,
                   first_candle_data, positions, completed_trades, metrics,
                   breadth_service, opened, stop_runs, can_trade_result,
                   returned>>

\* `finally: await self.stop()`
Finally ==
    /\ pc = "finally"
    /\ Commit(stop(Self, strategy_config, now))
    /\ pc' = "done"
    /\ UNCHANGED <<now, strategy_config>>

\* where an exception raised inside `try:` takes start(): `except Exception`
\* only logs, a BaseException passes it, and both reach `finally:`
AfterException_LeavesStart == "done"
AfterException == "finally"

\* an exception escapes from step k + 1 of an iteration, after steps 1 to k
IterationRaises ==
    /\ pc = "loop"
    /\ is_running
    /\ \E fetched \in FetchedFor(Self, now),
          responses \in ResponsesFor(Self, now),
          candles \in CandlesFor(Self, now),
          k \in 0..5 :
           Commit(LoopPrefix(Self, strategy_config, now, fetched, responses,
                             candles, k))
    /\ pc' = AfterException
    /\ UNCHANGED <<now, strategy_config>>

\* the task running start() is cancelled or interrupted: the exception is
\* raised at `await asyncio.sleep(1)`
Cancelled ==
    /\ pc = "sleep"
    /\ pc' = AfterException
    /\ UNCHANGED <<now, strategy_config, is_running, premarket_collected,
                   first_candle_tracked, market_state, premarket_data,
                   first_candle_data, positions, completed_trades, metrics,
                   breadth_service, opened, stop_runs, can_trade_result,
                   returned>>

\* another task calls stop() while start() is suspended in its sleep
ExternalStop ==
    /\ pc = "sleep"
    /\ is_running
    /\ Commit(stop(Self, strategy_config, now))
    /\ UNCHANGED <<now, pc, strategy_config>>

\* the price feed calls update_price on an open position while start() is
\* suspended in its sleep
PriceUpdate ==
    /\ pc = "sleep"
    /\ \E x \in Symbols, price \in PriceChoices :
         /\ positions[x] # None
         /\ positions' = [positions EXCEPT ![x] = update_price(@, price)]
    /\ UNCHANGED <<now, pc, strategy_config, is_running, premarket_collected,
                   first_candle_tracked, market_state, premarket_data,
                   first_candle_data, completed_trades, metrics,
                   breadth_service, opened, stop_runs, can_trade_result,
                   returned>>

Init ==
    /\ now \in StartTimes
    /\ pc = "idle"
    /\ strategy_config \in ConfigSpace
    /\ is_running = FALSE
    /\ premarket_collected = FALSE
    /\ first_candle_tracked = FALSE
    /\ market_state = InitMarketState
    /\ premarket_data = [x \in Symbols |-> None]
    /\ first_candle_data = [x \in Symbols |-> None]
    /\ positions = [x \in Symbols |-> None]
    /\ completed_trades = <<>>
    /\ metrics = InitMetrics
    /\ breadth_service = InitBreadthService
    /\ opened = 0
    /\ stop_runs = 0
    /\ can_trade_result = <<FALSE, Message("not called", <<>>)>>
    /\ returned = None

Next ==
    \/ Start
    \/ Iterate
    \/ LoopExit
    \/ Sleep
    \/ Finally
    \/ IterationRaises
    \/ Cancelled
    \/ ExternalStop
    \/ PriceUpdate

Spec == Init /\ [][Next]_vars

(***************************************************************************)
(* Properties                                                              *)
(***************************************************************************)
\* the symbols with an open position, and the ids of the closed positions
OpenSymbols == {x \in Symbols : positions[x] # None}
TradeIds == {completed_trades[i].id : i \in DOMAIN completed_trades}

\* C1: `positions` holds at most one open position per symbol: the entry of
\* a symbol is the position of that symbol, and a step opens a position
\* (one with a new id) for a symbol only if the symbol had no open position
\* before the step.
C1_OnePositionPerSymbol ==
    /\ [](\A x \in OpenSymbols : positions[x].symbol = x)
    /\ [][\A x \in Symbols :
            (positions'[x] # None /\ positions'[x].id > opened)
                => positions[x] = None]_vars

\* an iteration inside the signal window has left alone a position opened
\* by an earlier iteration, while a new trade was still allowed
C1_Witness ==
    /\ pc = "sleep"
    /\ _is_signal_generation_time(now)
    /\ can_take_trade(market_state, strategy_config.max_trades_per_day,
                      strategy_config.max_loss_per_day_pct,
                      strategy_config.portfolio_value)[1]
    /\ \E x \in OpenSymbols : positions[x].entry_time < now

\* C2: every position is closed by exactly one exit event: no two entries
\* of completed_trades belong to the same position, a closed position is no
\* longer in `positions`, and completed_trades has one entry for each
\* position that was opened and is not open any more.
C2_ExactlyOneExit ==
    /\ \A i, j \in DOMAIN completed_trades :
           completed_trades[i].id = completed_trades[j].id => i = j
    /\ \A x \in OpenSymbols : positions[x].id \notin TradeIds
    /\ TradeIds \cup {positions[x].id : x \in OpenSymbols} = 1..opened
    /\ Len(completed_trades) = opened - Cardinality(OpenSymbols)

\* a position was closed by monitoring, another by stop(), and stop() has
\* run a second time
C2_Witness ==
    /\ stop_runs = 2
    /\ \E i, j \in DOMAIN completed_trades :
         /\ completed_trades[i].exit_reason = "TIME_BASED"
         /\ completed_trades[j].exit_reason = "STRATEGY_STOP"

\* C3: a run of stop() closes every position that is still open with exit
\* reason STRATEGY_STOP and leaves `positions` empty; once start() has
\* returned, `positions` is empty and every position ever opened has a
\* TradeResult.
C3_StopClosesAll ==
    /\ [](pc = "done" => (OpenSymbols = {} /\ TradeIds = 1..opened))
    /\ [][stop_runs' # stop_runs =>
            /\ \A x \in Symbols : positions'[x] = None
            /\ \A x \in OpenSymbols :
                 \E i \in DOMAIN completed_trades' :
                   /\ i > Len(completed_trades)
                   /\ completed_trades'[i].id = positions[x].id
                   /\ completed_trades'[i].exit_reason = "STRATEGY_STOP"]_vars

\* the loop ended because the clock passed 9:25, and stop() closed a
\* position that was still open then
C3_Witness ==
    /\ pc = "done"
    /\ stop_runs = 1
    /\ now > time(9, 25)
    /\ \E i \in DOMAIN completed_trades :
         /\ completed_trades[i].exit_reason = "STRATEGY_STOP"
         /\ completed_trades[i].exit_time = now

\* C4: the number of positions opened in a session never exceeds
\* max_trades_per_day.
C4_OpenedWithinMaxTrades == opened <= strategy_config.max_trades_per_day

\* C5: the number of positions open at the same time never exceeds
\* max_positions.
C5_OpenWithinMaxPositions ==
    Cardinality(OpenSymbols) <= strategy_config.max_positions

\* daily_pnl after the first k exits of the session
RECURSIVE PnlAfter(_)
PnlAfter(k) == IF k = 0 THEN 0 ELSE PnlAfter(k - 1) + completed_trades[k].net_pnl

\* the entry times of all positions opened so far
EntryTimes ==
    {positions[x].entry_time : x \in OpenSymbols}
        \cup {completed_trades[i].entry_time : i \in DOMAIN completed_trades}

C7_StopFlagIffFirstTradeLost ==
    market_state.stop_trading_till_945
        <=> /\ strategy_config.stop_after_first_loss
            /\ completed_trades # <<>>
            /\ is_loser(completed_trades[1])

\* the first close of the session was a loss and has set the flag
C7_Witness ==
    /\ market_state.stop_trading_till_945
    /\ market_state.trades_today = 1
    /\ Len(completed_trades) = 1

\* C9: a position is opened only by an iteration whose wall-clock time t
\* satisfies 9:16 <= t < 9:20.
C9_OpenedOnlyInSignalWindow ==
    /\ [](\A e \in EntryTimes : time(9, 16) <= e /\ e < time(9, 20))
    /\ [][opened' # opened => (time(9, 16) <= now /\ now < time(9, 20))]_vars

\* an iteration before 9:16 had a signal at hand and a trade was allowed,
\* and it opened nothing
C9_Witness ==
    /\ pc = "sleep"
    /\ now < time(9, 16)
    /\ opened = 0
    /\ can_take_trade(market_state, strategy_config.max_trades_per_day,
                      strategy_config.max_loss_per_day_pct,
                      strategy_config.portfolio_value)[1]
    /\ \E x \in Symbols :
         /\ premarket_data[x] # None
         /\ EvaluateSymbol(x, premarket_data[x], first_candle_data,
                           market_state, strategy_config, now) # None

(***************************************************************************)
(* can_take_trade on every market state                                    *)
(***************************************************************************)
\* values of daily_pnl around the loss limit of 50 rupees, in paise
PnlChoices == {-9500, -5000, -4999, 0, 4000}

\* the largest trades_today
MaxTradesToday == 3

MarketStates ==
    { [InitMarketState EXCEPT !.is_execution_window = w,
                              !.max_trades_reached = r,
                              !.trades_today = n,
                              !.daily_pnl = p,
                              !.stop_trading_till_945 = f] :
        w \in BOOLEAN, r \in BOOLEAN, n \in 0..MaxTradesToday,
        p \in PnlChoices, f \in BOOLEAN }

InitCanTrade ==
    /\ now \in StartTimes
    /\ pc = "idle"
    /\ strategy_config \in ConfigSpace
    /\ is_running = FALSE
    /\ premarket_collected = FALSE
    /\ first_candle_tracked = FALSE
    /\ market_state \in MarketStates
    /\ premarket_data = [x \in Symbols |-> None]
    /\ first_candle_data = [x \in Symbols |-> None]
    /\ positions = [x \in Symbols |-> None]
    /\ completed_trades = <<>>
    /\ metrics = InitMetrics
    /\ breadth_service = InitBreadthService
    /\ opened = 0
    /\ stop_runs = 0
    /\ can_trade_result = <<FALSE, Message("not called", <<>>)>>
    /\ returned = None

\* the call of can_take_trade in _evaluate_setups
CallCanTakeTrade ==
    /\ pc = "idle"
    /\ can_trade_result' =
           can_take_trade(market_state, strategy_config.max_trades_per_day,
                          strategy_config.max_loss_per_day_pct,
                          strategy_config.portfolio_value)
    /\ pc' = "called"
    /\ UNCHANGED <<now, strategy_config, is_running, premarket_collected,
                   first_candle_tracked, market_state, premarket_data,
                   first_candle_data, positions, completed_trades, metrics,
                   breadth_service, opened, stop_runs, returned>>

NextCanTrade == CallCanTakeTrade

SpecCanTrade == InitCanTrade /\ [][NextCanTrade]_vars

StoppedAfterFirstLoss ==
    <<FALSE, Message("Stopped after first loss (till 9:45)", <<>>)>>

\* C8: whenever stop_trading_till_945 is True, can_take_trade returns
\* exactly (False, "Stopped after first loss (till 9:45)"), for every value
\* of the execution-window flag, the trade count, the max-trades limit and
\* the daily P&L.
C8_StoppedWhateverElse ==
    (pc = "called" /\ market_state.stop_trading_till_945)
        => can_trade_result = StoppedAfterFirstLoss

\* C8, amended: whenever stop_trading_till_945 is True, can_take_trade
\* returns False, and its reason is "Stopped after first loss (till 9:45)"
\* exactly when the execution window is open, the trade count is below the
\* limit and daily_pnl is above the loss limit.
C8_StoppedUnlessEarlierCheck ==
    (pc = "called" /\ market_state.stop_trading_till_945)
        => /\ can_trade_result[1] = FALSE
           /\ can_trade_result = StoppedAfterFirstLoss
                <=> /\ market_state.is_execution_window
                    /\ ~market_state.max_trades_reached
                    /\ market_state.trades_today
                         < strategy_config.max_trades_per_day
                    /\ ~LossLimitReached(market_state.daily_pnl,
                                         strategy_config.max_loss_per_day_pct,
                                         strategy_config.portfolio_value)

\* can_take_trade has answered with the stop after the first loss
C8_Witness ==
    /\ pc = "called"
    /\ market_state.stop_trading_till_945
    /\ can_trade_result = StoppedAfterFirstLoss

(***************************************************************************)
(* Termination of start()                                                  *)
(***************************************************************************)
\* The event loop resumes start() whenever it can run, and the wall clock
\* keeps advancing: a step of start() that stays possible is taken.  Every
\* step of start() changes pc, and no other step does, so the steps are
\* named by the change of pc: idle -> loop is Start, loop -> sleep or
\* finally with is_running is Iterate, loop -> finally without it is
\* LoopExit, sleep -> loop is Sleep, finally -> done is Finally.  Nothing is
\* assumed of the stop requests and of the price feed.  The session is run
\* with main.py's configuration.
Resumes(from, to) == pc = from /\ pc' \in to

LiveInit == Init /\ strategy_config = MainConfig

LiveSpec ==
    /\ LiveInit
    /\ [][Next]_vars
    /\ WF_pc(Resumes("idle", {"loop"}))
    /\ WF_pc(is_running /\ Resumes("loop", {"sleep", "finally"}))
    /\ WF_pc(~is_running /\ Resumes("loop", {"finally"}))
    /\ WF_pc(now < EndOfClock /\ Resumes("sleep", {"loop"}))
    /\ WF_pc(Resumes("finally", {"done"}))

\* C10: start() terminates; an iteration that observes a time later than
\* 9:25 leaves the loop, and after a stop request the next test of
\* is_running at the top of an iteration leaves the loop.
C10_StartTerminates ==
    /\ <>(pc = "done")
    /\ [][(pc = "loop" /\ (now > time(9, 25) \/ ~is_running))
            => pc' = "finally"]_vars

\* start() has returned before the end of the session, after a stop request
C10_Witness ==
    /\ pc = "done"
    /\ stop_runs = 2
    /\ now <= time(9, 25)

(***************************************************************************)
(* Exceptions and shutdown                                                 *)
(***************************************************************************)
\* C11: start() is left only through stop(): the loop is left for the
\* finally clause, also when an exception is raised inside an iteration or
\* at the sleep; the step that leaves start() is a run of stop(); and after
\* it no position is open and every position opened has a TradeResult.
C11_NoExitWithoutStop ==
    /\ [](pc = "done" =>
            /\ stop_runs >= 1
            /\ ~is_running
            /\ OpenSymbols = {}
            /\ TradeIds = 1..opened)
    /\ [][(pc \in {"loop", "sleep"} /\ pc' \notin {"loop", "sleep"})
            => pc' = "finally"]_vars
    /\ [][(pc # "done" /\ pc' = "done")
            => (pc = "finally" /\ stop_runs' = stop_runs + 1)]_vars

\* an iteration raised when a time-based exit was due (only an iteration
\* that did not reach the monitoring step leaves such a position open), and
\* stop() has closed the position
C11_Witness ==
    /\ pc = "done"
    /\ stop_runs = 1
    /\ \E i \in DOMAIN completed_trades :
         /\ completed_trades[i].exit_reason = "STRATEGY_STOP"
         /\ completed_trades[i].exit_time - completed_trades[i].entry_time
              >= 2 * strategy_config.max_holding_minutes

(***************************************************************************)
(* Monitoring                                                              *)
(***************************************************************************)
\* the last price of a position has touched its current stop, its target
StopTouched(p) ==
    /\ p.current_price > 0
    /\ IF p.signal_type = "LONG" THEN p.current_price <= p.current_stop_loss
       ELSE p.current_price >= p.current_stop_loss

TargetTouched(p) ==
    /\ p.current_price > 0
    /\ IF p.signal_type = "LONG" THEN p.current_price >= p.target_price
       ELSE p.current_price <= p.target_price

\* the step is a complete iteration of the loop, monitoring included
MonitoringTick == pc = "loop" /\ pc' = "sleep"

\* the step closes the position of symbol x with the given exit reason
ClosedWith(x, exit_reason) ==
    \E i \in DOMAIN completed_trades' :
      /\ i > Len(completed_trades)
      /\ completed_trades'[i].id = positions[x].id
      /\ completed_trades'[i].exit_reason = exit_reason

\* C12: a monitoring tick tests each open position for the time-based exit,
\* then the touch of its stop, then the touch of its target, and the first
\* test that holds closes the position on that tick with reason TIME_BASED,
\* STOP_LOSS or TARGET.
C12_MonitorPriorityOrder ==
    [][MonitoringTick =>
         \A x \in OpenSymbols :
           IF should_exit_by_time(positions[x], now)
           THEN ClosedWith(x, "TIME_BASED")
           ELSE IF StopTouched(positions[x]) THEN ClosedWith(x, "STOP_LOSS")
           ELSE IF TargetTouched(positions[x]) THEN ClosedWith(x, "TARGET")
           ELSE TRUE]_vars

\* the symbols whose open position is still the same position after the step
Persisting ==
    {x \in OpenSymbols : positions'[x] # None /\ positions'[x].id = positions[x].id}

\* C13: breakeven promotion happens at most once per position: once
\* moved_to_breakeven is True it stays True and no later step changes
\* current_stop_loss or breakeven_time; a position has a breakeven_time
\* exactly when it was moved, and its stop is then the entry price.
C13_BreakevenOnce ==
    /\ [](\A x \in OpenSymbols :
            /\ positions[x].moved_to_breakeven
                 <=> positions[x].breakeven_time # NoTime
            /\ positions[x].moved_to_breakeven
                 => positions[x].current_stop_loss = positions[x].entry_price)
    /\ [][\A x \in Persisting :
            positions[x].moved_to_breakeven =>
              /\ positions'[x].moved_to_breakeven
              /\ positions'[x].current_stop_loss = positions[x].current_stop_loss
              /\ positions'[x].breakeven_time = positions[x].breakeven_time]_vars

\* a position was moved to breakeven by an earlier tick and the tick at
\* `now` found it in profit again (its price has never been below entry)
C13_Witness ==
    /\ pc = "sleep"
    /\ \E x \in OpenSymbols :
         /\ positions[x].moved_to_breakeven
         /\ positions[x].breakeven_time < now
         /\ positions[x].current_price > positions[x].entry_price
         /\ positions[x].max_adverse_excursion = 0

\* C14: current_stop_loss of a position is its initial stop_loss or, after
\* the breakeven promotion, its entry_price, and it never moves away from
\* entry: for a LONG it never decreases, for a SHORT it never increases.
C14_StopOnlyTowardsEntry ==
    /\ [](\A x \in OpenSymbols :
            /\ positions[x].current_stop_loss
                 \in {positions[x].stop_loss, positions[x].entry_price}
            /\ ~positions[x].moved_to_breakeven
                 => positions[x].current_stop_loss = positions[x].stop_loss)
    /\ [][\A x \in Persisting :
            IF positions[x].signal_type = "LONG"
            THEN positions'[x].current_stop_loss >= positions[x].current_stop_loss
            ELSE positions'[x].current_stop_loss <= positions[x].current_stop_loss]_vars

\* the stop of a LONG position has moved up from its initial stop to entry
C14_Witness ==
    \E x \in OpenSymbols :
      /\ positions[x].signal_type = "LONG"
      /\ positions[x].moved_to_breakeven
      /\ positions[x].current_stop_loss = positions[x].entry_price
      /\ positions[x].stop_loss < positions[x].entry_price

\* C15: entry_price and quantity of a position do not change while it is
\* open, and the TradeResult of its exit carries the entry_price and the
\* quantity of the position.
C15_EntryAndQuantityFixed ==
    [][/\ \A x \in Persisting :
            /\ positions'[x].entry_price = positions[x].entry_price
            /\ positions'[x].quantity = positions[x].quantity
       /\ \A x \in OpenSymbols \ Persisting :
            \E i \in DOMAIN completed_trades' :
              /\ i > Len(completed_trades)
              /\ completed_trades'[i].id = positions[x].id
              /\ completed_trades'[i].entry_price = positions[x].entry_price
              /\ completed_trades'[i].quantity = positions[x].quantity]_vars

\* a position whose price was updated and which was moved to breakeven has
\* been closed by monitoring
C15_Witness ==
    \E i \in DOMAIN completed_trades :
      /\ completed_trades[i].exit_reason = "TIME_BASED"
      /\ completed_trades[i].exit_price > completed_trades[i].entry_price
      /\ completed_trades[i].max_adverse_excursion > 0
      /\ completed_trades[i].quantity > 0

(***************************************************************************)
(* Setup evaluation and position sizing on enumerated market data          *)
(***************************************************************************)
\* utils.helpers.calculate_position_size; prices in paise, the percentage in
\* hundredths of a percent
calculate_position_size(portfolio_value, risk_per_trade_pct, entry_price, stop_loss) ==
    LET risk_amount == portfolio_value * risk_per_trade_pct
        price_risk == Abs(entry_price - stop_loss)
    IN  IF price_risk = 0 THEN 0
        ELSE risk_amount \div (100 * price_risk)

\* advances and declines the breadth source reports
BreadthData ==
    { [advances |-> 150, declines |-> 100],
      [advances |-> 300, declines |-> 100],
      [advances |-> 120, declines |-> 100],
      [advances |-> 100, declines |-> 100],
      [advances |-> 100, declines |-> 150] }

\* the market state after _update_market_breadth has fetched breadth_data
\* and the loop has reached the execution window
BreadthState(breadth_data) ==
    [InitMarketState EXCEPT
       !.advances = breadth_data.advances,
       !.declines = breadth_data.declines,
       !.ad_ratio = calculate_breadth_ratio(breadth_data)[1],
       !.breadth_classification = get_market_breadth(breadth_data),
       !.breadth_strength = get_breadth_strength_score(breadth_data),
       !.premarket_data_collected = TRUE,
       !.first_candle_complete = TRUE,
       !.is_execution_window = TRUE]

\* previous close 21500.00 and open 21580.00 (gap +0.372 %) with the
\* previous day's high above the risk-reward target, below it, and below the
\* high of the first candle; previous close 1000.00 with gaps from -0.40 %
\* to +0.60 %
GapChoices(x) ==
    { PreMarketData(x, 2150000, 2158000, 2165000),
      PreMarketData(x, 2150000, 2158000, 2160000),
      PreMarketData(x, 2150000, 2158000, 2159000) }
    \cup { PreMarketData(x, 100000, o, 2165000) :
             o \in {99600, 99700, 99900, 100000, 100300, 100500, 100600} }

\* first candles: closing above VWAP with a wick of a sixth of the range,
\* with and without volume; the same closing at or below VWAP; closing low
\* in its range below VWAP; with a range of 65.00; with no range; with an
\* upper wick of a third of the range
FirstCandleChoices ==
    { [open |-> 2157000, high |-> 2159500, low |-> 2156500, close |-> 2159000,
       vwap |-> v, volume_ratio |-> 100] : v \in {2159000, 2159200} } \cup
    { [open |-> 2157000, high |-> 2159500, low |-> 2156500, close |-> 2159000,
       vwap |-> 2158000, volume_ratio |-> 100],
      [open |-> 2157000, high |-> 2159500, low |-> 2156500, close |-> 2159000,
       vwap |-> 2158000, volume_ratio |-> 210],
      [open |-> 2157000, high |-> 2159500, low |-> 2156500, close |-> 2157000,
       vwap |-> 2158000, volume_ratio |-> 100],
      [open |-> 2157000, high |-> 2159500, low |-> 2153000, close |-> 2159000,
       vwap |-> 2158000, volume_ratio |-> 100],
      [open |-> 2158000, high |-> 2158000, low |-> 2158000, close |-> 2158000,
       vwap |-> 2157000, volume_ratio |-> 100],
      [open |-> 2157000, high |-> 2159500, low |-> 2156500, close |-> 2158500,
       vwap |-> 2158000, volume_ratio |-> 100] }

\* portfolio values of 5000 and 100000 rupees, 0.5 % and 1 % of risk per
\* trade, with and without the VWAP requirement of setup 1
SizingConfigs ==
    { [MainConfig EXCEPT !.portfolio_value = p,
                         !.risk_per_trade_pct = r,
                         !.setup1_require_vwap_above = v] :
        p \in {PORTFOLIO_VALUE, 100000}, r \in {50, RISK_PER_TRADE},
        v \in BOOLEAN }

\* the strategy at the start of the signal window, with the data of the
\* pre-market and of the first candle collected
InitSignals ==
    /\ now \in {time(9, 16), time(9, 17)}
    /\ pc = "idle"
    /\ strategy_config \in SizingConfigs
    /\ is_running = TRUE
    /\ premarket_collected = TRUE
    /\ first_candle_tracked = TRUE
    /\ market_state \in {BreadthState(d) : d \in BreadthData}
    /\ premarket_data \in
         {f \in [Symbols -> UNION {GapChoices(x) : x \in Symbols} \cup {None}] :
            /\ f["NIFTY"] \in GapChoices("NIFTY")
            /\ f["BANKNIFTY"] \in {None, PreMarketData("BANKNIFTY", 2150000, 2158000, 2165000)}}
    /\ first_candle_data \in
         {f \in [Symbols -> FirstCandleChoices \cup {None}] :
            f["BANKNIFTY"] \in
              {None, [open |-> 2157000, high |-> 2159500, low |-> 2156500,
                      close |-> 2159000, vwap |-> 2158000, volume_ratio |-> 100]}}
    /\ positions = [x \in Symbols |-> None]
    /\ completed_trades = <<>>
    /\ metrics = InitMetrics
    /\ breadth_service = InitBreadthService
    /\ opened = 0
    /\ stop_runs = 0
    /\ can_trade_result = <<FALSE, Message("not called", <<>>)>>
    /\ returned = None

\* step 5 of the main loop: the call of _evaluate_setups
CallEvaluateSetups ==
    /\ pc = "idle"
    /\ Commit(_evaluate_setups(Self, strategy_config, now))
    /\ pc' = "evaluated"
    /\ UNCHANGED <<now, strategy_config>>

\* the signal a setup builds from the first candle of `symbol`: entry at
\* its high, stop at its low
CandleSignal(symbol, first_candle, cfg, t) ==
    MMFSSignal(symbol, "GAP_UP_BREAKOUT", "LONG", first_candle.high,
               first_candle.low,
               first_candle.high
                 + ((first_candle.high - first_candle.low) * cfg.risk_reward_ratio) \div 100,
               MIN_CONFIDENCE_SETUP1, t)

RECURSIVE ExecuteLoop(_, _, _, _)
ExecuteLoop(s, todo, cfg, t) ==
    IF todo = <<>> THEN s
    ELSE ExecuteLoop(
           _execute_signal(s, CandleSignal(Head(todo), s.first_candle_data[Head(todo)], cfg, t),
                           cfg, t),
           Tail(todo), cfg, t)

\* _execute_signal is called with a signal for each symbol that has a first
\* candle, whatever the range of the candle
CallExecuteSignal ==
    /\ pc = "idle"
    /\ Commit(ExecuteLoop(Self, SelectSeq(symbols, LAMBDA x : first_candle_data[x] # None),
                          strategy_config, now))
    /\ pc' = "executed"
    /\ UNCHANGED <<now, strategy_config>>

NextSignals == CallEvaluateSetups \/ CallExecuteSignal

SpecSignals == InitSignals /\ [][NextSignals]_vars

\* the preconditions of the four setups that hold for a symbol
SetupsApplying(x) ==
    {n \in 1..4 :
       CASE n = 1 -> _should_evaluate_setup1(premarket_data[x], market_state, strategy_config)
         [] n = 2 -> _should_evaluate_setup2(premarket_data[x], market_state, strategy_config)
         [] n = 3 -> _should_evaluate_setup3(premarket_data[x], market_state, strategy_config)
         [] OTHER -> _should_evaluate_setup4(premarket_data[x], market_state, strategy_config)}

\* C16: for every gap and every breadth classification at most one of the
\* four setup preconditions holds with the configured thresholds, and one
\* evaluation cycle produces at most one signal per symbol: it opens
\* positions only for symbols to which a setup applies, one each.
C16_AtMostOneSetup ==
    /\ \A x \in Symbols :
         premarket_data[x] # None => Cardinality(SetupsApplying(x)) <= 1
    /\ pc = "evaluated" =>
         /\ opened = Cardinality(OpenSymbols)
         /\ \A x \in OpenSymbols : Cardinality(SetupsApplying(x)) = 1

\* a gap of at least 0.50 % in a bullish market: the gap admits setups 1 and
\* 2, the breadth only setup 1, and the cycle has produced one signal
C16_Witness ==
    /\ pc = "evaluated"
    /\ GapGE(premarket_data["NIFTY"], SETUP2_MIN_GAP_PCT)
    /\ market_state.breadth_classification = "BULLISH"
    /\ SetupsApplying("NIFTY") = {1}
    /\ positions["NIFTY"] # None
    /\ positions["NIFTY"].id = 1

\* a rejection rule of GAP_UP_BREAKOUT applies to symbol x
Setup1Rejected(x) ==
    \/ first_candle_data[x] = None
    \/ /\ strategy_config.setup1_require_vwap_above
       /\ ~(first_candle_data[x].close > first_candle_data[x].vwap)
    \/ first_candle_data[x].high - first_candle_data[x].low = 0
    \/ (first_candle_data[x].high
          - Max(first_candle_data[x].open, first_candle_data[x].close)) * 100
         > strategy_config.setup1_max_rejection_wick_pct
             * (first_candle_data[x].high - first_candle_data[x].low)
    \/ _calculate_setup1_confidence(premarket_data[x], first_candle_data[x], market_state)
         < strategy_config.min_confidence_setup1

\* C17: GAP_UP_BREAKOUT emits no signal for a symbol to which a rejection
\* rule applies (no first candle, close not above VWAP when that is
\* required, zero range, upper wick above the configured share of the range,
\* confidence below the minimum): after an evaluation cycle only symbols
\* that passed every check have a position.
C17_RejectedNoSignal ==
    pc = "evaluated" =>
      \A x \in Symbols :
        /\ (premarket_data[x] # None /\ Setup1Rejected(x)) =>
             /\ positions[x] = None
             /\ EvaluateSymbol(x, premarket_data[x], first_candle_data,
                               market_state, strategy_config, now) = None
        /\ positions[x] # None =>
             /\ SetupsApplying(x) = {1}
             /\ ~Setup1Rejected(x)

\* NIFTY's first candle closed below VWAP with a small upper wick and gave
\* no signal, while BANKNIFTY's closed above VWAP and gave one
C17_Witness ==
    /\ pc = "evaluated"
    /\ strategy_config.setup1_require_vwap_above
    /\ SetupsApplying("NIFTY") = {1}
    /\ first_candle_data["NIFTY"] # None
    /\ first_candle_data["NIFTY"].close = 2159000
    /\ first_candle_data["NIFTY"].vwap = 2159200
    /\ positions["NIFTY"] = None
    /\ positions["BANKNIFTY"] # None

\* C18: every GAP_UP_BREAKOUT position is LONG with entry at the first
\* candle's high, stop at its low and target the smaller of
\* entry + (entry - stop) x risk_reward_ratio and the previous day's high;
\* for the candle with high 21595 and low 21565 entry is 21595 and stop 21565.
C18_Setup1Levels ==
    pc = "evaluated" =>
      \A x \in OpenSymbols :
        positions[x].setup_type = "GAP_UP_BREAKOUT" =>
          /\ positions[x].signal_type = "LONG"
          /\ positions[x].entry_price = first_candle_data[x].high
          /\ positions[x].stop_loss = first_candle_data[x].low
          /\ 100 * positions[x].target_price =
               Min(100 * positions[x].entry_price
                     + (positions[x].entry_price - positions[x].stop_loss)
                         * strategy_config.risk_reward_ratio,
                   100 * premarket_data[x].prev_high)
          /\ (first_candle_data[x].high = 2159500 /\ first_candle_data[x].low = 2156500)
               => (positions[x].entry_price = 2159500 /\ positions[x].stop_loss = 2156500)

\* the candle 21595 / 21565 gave a signal whose target is the previous
\* day's high of 21600, below the risk-reward target of 21640
C18_Witness ==
    /\ pc = "evaluated"
    /\ positions["NIFTY"] # None
    /\ positions["NIFTY"].entry_price = 2159500
    /\ positions["NIFTY"].stop_loss = 2156500
    /\ positions["NIFTY"].target_price = 2160000
    /\ premarket_data["NIFTY"].prev_high = 2160000

\* C19: for an entry different from the stop the quantity is the floor of
\* (portfolio_value x risk_per_trade_pct / 100) / |entry - stop|, so that
\* quantity x |entry - stop| does not exceed the amount at risk; for an
\* entry equal to the stop calculate_position_size is 0 and _execute_signal
\* opens no position.
C19_QuantityIsFloor ==
    pc = "executed" =>
      \A x \in Symbols :
        first_candle_data[x] # None =>
          LET entry_price == first_candle_data[x].high
              stop_loss == first_candle_data[x].low
              amount == strategy_config.portfolio_value
                          * strategy_config.risk_per_trade_pct
              size == calculate_position_size(strategy_config.portfolio_value,
                          strategy_config.risk_per_trade_pct, entry_price, stop_loss)
          IN  IF entry_price = stop_loss
              THEN positions[x] = None /\ size = 0
              ELSE /\ positions[x] # None
                   /\ positions[x].quantity = size
                   /\ size * 100 * Abs(entry_price - stop_loss) <= amount
                   /\ amount < (size + 1) * 100 * Abs(entry_price - stop_loss)

\* 50 rupees at risk over 30.00 a unit give one unit for BANKNIFTY, and
\* NIFTY's signal with entry equal to stop opened nothing
C19_Witness ==
    /\ pc = "executed"
    /\ strategy_config.portfolio_value = PORTFOLIO_VALUE
    /\ strategy_config.risk_per_trade_pct = RISK_PER_TRADE
    /\ first_candle_data["NIFTY"] # None
    /\ first_candle_data["NIFTY"].high = first_candle_data["NIFTY"].low
    /\ positions["NIFTY"] = None
    /\ positions["BANKNIFTY"] # None
    /\ positions["BANKNIFTY"].quantity = 1
    /\ positions["BANKNIFTY"].entry_price - positions["BANKNIFTY"].stop_loss = 3000

\* C20: every position held in `positions` has a quantity of at least 1.
C20_QuantityAtLeastOne ==
    \A x \in OpenSymbols : positions[x].quantity >= 1

\* an evaluation cycle has stored a position of no units
C20_ZeroQuantityOpened ==
    /\ pc = "evaluated"
    /\ strategy_config.portfolio_value = PORTFOLIO_VALUE
    /\ strategy_config.risk_per_trade_pct = RISK_PER_TRADE
    /\ positions["NIFTY"] # None
    /\ positions["NIFTY"].quantity = 0
    /\ positions["NIFTY"].entry_price - positions["NIFTY"].stop_loss = 6500

(***************************************************************************)
(* Configuration validation and main.run_mmfs_strategy                     *)
(***************************************************************************)
\* the sequence <<x>> if cond holds, the empty sequence otherwise
AppendIf(cond, x) == IF cond THEN <<x>> ELSE <<>>

\* config.mmfs_config.validate_mmfs_config; percentages and ratios in
\* hundredths
validate_mmfs_config(config) ==
    LET errors ==
            AppendIf(config.portfolio_value <= 0,
                     "Portfolio value must be positive")
         \o AppendIf(config.risk_per_trade_pct <= 0 \/ config.risk_per_trade_pct > 200,
                     "Risk per trade should be between 0.1% and 2%")
         \o AppendIf(config.max_positions <= 0 \/ config.max_positions > 3,
                     "Max positions should be between 1 and 3 for scalping")
         \o AppendIf(config.small_gap_threshold >= config.moderate_gap_threshold,
                     "Small gap threshold must be less than moderate")
        warnings ==
            AppendIf(config.portfolio_value < 25000,
                     "Portfolio value quite low for scalping")
         \o AppendIf(config.risk_per_trade_pct > 100,
                     "High risk per trade for scalping strategy")
         \o AppendIf(config.execution_end_minute - config.execution_start_minute # 5,
                     "Execution window should be exactly 5 minutes")
         \o AppendIf(config.max_holding_minutes > 10,
                     "Max holding period too long for scalping strategy")
         \o AppendIf(config.risk_reward_ratio < 100,
                     "Risk-reward ratio below 1:1 not recommended")
         \o AppendIf(config.max_trades_per_day > 5,
                     "Too many trades per day for scalping strategy")
         \o AppendIf(config.max_loss_per_day_pct > 200,
                     "Daily loss limit high for scalping")
    IN  [valid |-> errors = <<>>, errors |-> errors, warnings |-> warnings]

\* configurations load_configuration builds from the environment: the
\* defaults; RISK_PER_TRADE=3.0; MIN_GAP_THRESHOLD=0.80; PORTFOLIO_VALUE=0
RunConfigs ==
    { MainConfig,
      [MainConfig EXCEPT !.risk_per_trade_pct = 300],
      [MainConfig EXCEPT !.small_gap_threshold = MODERATE_GAP_THRESHOLD],
      [MainConfig EXCEPT !.portfolio_value = 0] }

\* the process at the call of run_mmfs_strategy
InitMain ==
    /\ now \in StartTimes
    /\ pc = "main"
    /\ strategy_config \in RunConfigs
    /\ is_running = FALSE
    /\ premarket_collected = FALSE
    /\ first_candle_tracked = FALSE
    /\ market_state = InitMarketState
    /\ premarket_data = [x \in Symbols |-> None]
    /\ first_candle_data = [x \in Symbols |-> None]
    /\ positions = [x \in Symbols |-> None]
    /\ completed_trades = <<>>
    /\ metrics = InitMetrics
    /\ breadth_service = InitBreadthService
    /\ opened = 0
    /\ stop_runs = 0
    /\ can_trade_result = <<FALSE, Message("not called", <<>>)>>
    /\ returned = None

\* run_mmfs_strategy up to the first test of the loop condition in
\* strategy.start(): it returns early without credentials, when the
\* authentication fails or when the client cannot be built
RunStrategy ==
    /\ pc = "main"
    /\ \E credentials \in BOOLEAN, authenticated \in BOOLEAN, client_built \in BOOLEAN :
         IF credentials /\ authenticated /\ client_built
         THEN is_running' = TRUE /\ pc' = "loop"
         ELSE is_running' = is_running /\ pc' = "returned"
    /\ UNCHANGED <<now, strategy_config, premarket_collected,
                   first_candle_tracked, market_state, premarket_data,
                   first_candle_data, positions, completed_trades, metrics,
                   breadth_service, opened, stop_runs, can_trade_result,
                   returned>>

NextMain ==
    \/ RunStrategy
    \/ Iterate
    \/ LoopExit
    \/ Sleep
    \/ Finally \/ ExternalStop
    \/ PriceUpdate

SpecMain == InitMain /\ [][NextMain]_vars

\* C21: with a configuration for which validate_mmfs_config reports a hard
\* error the main loop is never entered and no position is opened.
C21_NoStartWithHardError ==
    validate_mmfs_config(strategy_config).errors # <<>> =>
      /\ pc \in {"main", "returned"}
      /\ opened = 0

\* the strategy runs with 3 % of risk per trade, a hard error, and has
\* opened a position
C21_StartedWithHardError ==
    /\ ~validate_mmfs_config(strategy_config).valid
    /\ strategy_config.risk_per_trade_pct = 300
    /\ pc = "sleep"
    /\ opened >= 1

\* values of the validated fields on both sides of every limit
ValidationConfigs ==
    { [MainConfig EXCEPT !.portfolio_value = p,
                         !.risk_per_trade_pct = r,
                         !.max_positions = m,
                         !.small_gap_threshold = g] :
        p \in {-5000, 0, PORTFOLIO_VALUE, 25000},
        r \in {-50, 0, 5, 10, RISK_PER_TRADE, 200, 201},
        m \in {0, MAX_POSITIONS, 3, 4},
        g \in {SMALL_GAP_THRESHOLD, MODERATE_GAP_THRESHOLD, 90} }

InitValidate ==
    /\ now = time(9, 15)
    /\ pc = "idle"
    /\ strategy_config \in ValidationConfigs
    /\ is_running = FALSE
    /\ premarket_collected = FALSE
    /\ first_candle_tracked = FALSE
    /\ market_state = InitMarketState
    /\ premarket_data = [x \in Symbols |-> None]
    /\ first_candle_data = [x \in Symbols |-> None]
    /\ positions = [x \in Symbols |-> None]
    /\ completed_trades = <<>>
    /\ metrics = InitMetrics
    /\ breadth_service = InitBreadthService
    /\ opened = 0
    /\ stop_runs = 0
    /\ can_trade_result = <<FALSE, Message("not called", <<>>)>>
    /\ returned = None

\* the variables of the strategy object and of the clock
strategy_vars == <<now, strategy_config, is_running, premarket_collected, first_candle_tracked, market_state, premarket_data, first_candle_data, positions, completed_trades, metrics, breadth_service, opened, stop_runs, can_trade_result>>

\* validation = validate_mmfs_config(config)
CallValidate ==
    /\ pc = "idle"
    /\ returned' = validate_mmfs_config(strategy_config)
    /\ pc' = "called"
    /\ UNCHANGED strategy_vars

NextValidate == CallValidate

SpecValidate == InitValidate /\ [][NextValidate]_vars

\* whether x is an element of the sequence seq
Contains(seq, x) == \E i \in DOMAIN seq : seq[i] = x

\* C22: validate_mmfs_config reports its error for each violated hard rule
\* (small_gap_threshold not below moderate_gap_threshold, portfolio_value
\* not positive, risk_per_trade_pct outside [0.1, 2]) and for no rule that
\* holds, and valid is True exactly when the list of errors is empty.
C22_ErrorPerViolatedRule ==
    pc = "called" =>
      /\ Contains(returned.errors, "Small gap threshold must be less than moderate")
           <=> ~(strategy_config.small_gap_threshold
                   < strategy_config.moderate_gap_threshold)
      /\ Contains(returned.errors, "Portfolio value must be positive")
           <=> ~(strategy_config.portfolio_value > 0)
      /\ Contains(returned.errors, "Risk per trade should be between 0.1% and 2%")
           <=> ~(strategy_config.risk_per_trade_pct >= 10
                   /\ strategy_config.risk_per_trade_pct <= 200)
      /\ returned.valid <=> returned.errors = <<>>

\* a risk of 0.05 % per trade has been validated without an error
C22_SmallRiskAccepted ==
    /\ pc = "called"
    /\ strategy_config.risk_per_trade_pct = 5
    /\ returned.valid
    /\ returned.errors = <<>>

(***************************************************************************)
(* Gap classification (PreMarketData.__post_init__)                        *)
(***************************************************************************)
\* the defaults, and MIN_GAP_THRESHOLD=0.50 with MODERATE_GAP_THRESHOLD=1.00
\* or 0.80 in the environment
GapConfigs ==
    { MainConfig,
      [MainConfig EXCEPT !.small_gap_threshold = 50,
                         !.moderate_gap_threshold = 100],
      [MainConfig EXCEPT !.small_gap_threshold = 50] }

\* opens 0.40 % below and 0.10, 0.30, 0.40, 0.80 and 0.90 % above a previous
\* close of 1000.00; a previous close of zero and a negative one
GapInputs(x) ==
    { PreMarketData(x, 100000, o, 101000) :
        o \in {99600, 100100, 100300, 100400, 100800, 100900} }
    \cup { PreMarketData(x, c, 100400, 101000) : c \in {0, -100000} }

InitGap ==
    /\ now = time(9, 14)
    /\ pc = "idle"
    /\ strategy_config \in GapConfigs
    /\ is_running = TRUE
    /\ premarket_collected = FALSE
    /\ first_candle_tracked = FALSE
    /\ market_state = InitMarketState
    /\ premarket_data = [x \in Symbols |-> None]
    /\ first_candle_data = [x \in Symbols |-> None]
    /\ positions = [x \in Symbols |-> None]
    /\ completed_trades = <<>>
    /\ metrics = InitMetrics
    /\ breadth_service = InitBreadthService
    /\ opened = 0
    /\ stop_runs = 0
    /\ can_trade_result = <<FALSE, Message("not called", <<>>)>>
    /\ returned = None

\* step 1 of the main loop: _collect_premarket_data builds a PreMarketData
\* for each symbol
CallCollectPremarket ==
    /\ pc = "idle"
    /\ \E fetched \in [Symbols -> UNION {GapInputs(x) : x \in Symbols}] :
         /\ \A x \in Symbols : fetched[x] \in GapInputs(x)
         /\ Commit([_collect_premarket_data(Self, fetched)
                      EXCEPT !.premarket_collected = TRUE])
    /\ pc' = "collected"
    /\ UNCHANGED <<now, strategy_config>>

NextGap == CallCollectPremarket

SpecGap == InitGap /\ [][NextGap]_vars

\* the gap type that the thresholds small and moderate give to gap_pct
GapTypeFor(gap_pct, small, moderate) ==
    IF Abs(gap_pct.num) <= small * gap_pct.den THEN "SMALL"
    ELSE IF Abs(gap_pct.num) <= moderate * gap_pct.den THEN "MODERATE"
    ELSE "STRONG"

\* C23: for a positive previous close the gap type is SMALL when |gap_pct|
\* is at most the configured small_gap_threshold, MODERATE when it is at
\* most the configured moderate_gap_threshold and STRONG otherwise; for a
\* previous close of zero or less it is NO_GAP with gap_pct = 0.
C23_GapTypeByConfiguredThresholds ==
    pc = "collected" =>
      \A x \in Symbols :
        IF premarket_data[x].previous_close > 0
        THEN /\ premarket_data[x].gap_pct.num
                  = (premarket_data[x].today_open - premarket_data[x].previous_close)
                      * 10000
             /\ premarket_data[x].gap_pct.den = premarket_data[x].previous_close
             /\ premarket_data[x].gap_type =
                  GapTypeFor(premarket_data[x].gap_pct,
                             strategy_config.small_gap_threshold,
                             strategy_config.moderate_gap_threshold)
        ELSE /\ premarket_data[x].gap_type = "NO_GAP"
             /\ premarket_data[x].gap_pct.num = 0

\* with a configured small threshold of 0.50 % a gap of 0.40 % has been
\* classified MODERATE
C23_ConfiguredThresholdIgnored ==
    /\ pc = "collected"
    /\ strategy_config.small_gap_threshold = 50
    /\ premarket_data["NIFTY"].previous_close = 100000
    /\ premarket_data["NIFTY"].today_open = 100400
    /\ premarket_data["NIFTY"].gap_type = "MODERATE"

(***************************************************************************)
(* MarketBreadthService called on enumerated answers of the source         *)
(***************************************************************************)
\* counts of advances and declines, zero included
BreadthInputs ==
    { [advances |-> a, declines |-> d] :
        a \in {0, 1, 2, 100, 150}, d \in {0, 1, 100, 150, 225} }

\* what a request to the source ends in: a payload that parses to counts (of
\* which one is positive), a bad status, a payload that does not parse, a
\* network error
FetchOutcomes ==
    { [kind |-> "ok", data |-> d] :
        d \in {b \in BreadthInputs : b.advances > 0 \/ b.declines > 0} }
    \cup { [kind |-> k, data |-> None] :
             k \in {"bad_status", "unparsable", "network_error"} }

\* the counts _parse_nse_breadth_data extracts from the answer, None when
\* there is no answer to parse
ParsedResponse(outcome) ==
    IF outcome.kind = "ok" THEN outcome.data ELSE None

\* the last half minute for which the breadth service is called
LastFetchTime == time(9, 17)

InitBreadth ==
    /\ now = time(9, 15)
    /\ pc = "idle"
    /\ strategy_config = MainConfig
    /\ is_running = FALSE
    /\ premarket_collected = FALSE
    /\ first_candle_tracked = FALSE
    /\ market_state = InitMarketState
    /\ premarket_data = [x \in Symbols |-> None]
    /\ first_candle_data = [x \in Symbols |-> None]
    /\ positions = [x \in Symbols |-> None]
    /\ completed_trades = <<>>
    /\ metrics = InitMetrics
    /\ breadth_service = InitBreadthService
    /\ opened = 0
    /\ stop_runs = 0
    /\ can_trade_result = <<FALSE, Message("not called", <<>>)>>
    /\ returned = None

\* breadth_data = breadth_service.fetch_advance_decline_data()
CallFetch ==
    /\ \E outcome \in FetchOutcomes :
         LET f == fetch_advance_decline_data(breadth_service, now,
                                             ParsedResponse(outcome))
         IN  /\ breadth_service' = f[1]
             /\ returned' = [outcome |-> outcome, value |-> f[2]]
    /\ pc' = "fetched"
    /\ UNCHANGED <<now, strategy_config, is_running, premarket_collected,
                   first_candle_tracked, market_state, premarket_data,
                   first_candle_data, positions, completed_trades, metrics,
                   opened, stop_runs, can_trade_result>>

\* ad_ratio, classification = breadth_service.calculate_breadth_ratio(breadth_data)
CallCalculateBreadthRatio ==
    /\ \E breadth_data \in BreadthInputs :
         returned' = [breadth_data |-> breadth_data,
                      value |-> calculate_breadth_ratio(breadth_data)]
    /\ pc' = "calculated"
    /\ UNCHANGED strategy_vars

\* `self.advances / max(self.declines, 1) if self.declines > 0 else 1.0` of
\* FyersWebSocketBreadthTracker, as the exact fraction num/den
TrackerRatio(ws_tracker) ==
    IF ws_tracker.declines > 0
    THEN [num |-> ws_tracker.advances, den |-> Max(ws_tracker.declines, 1)]
    ELSE [num |-> 1, den |-> 1]

\* FyersWebSocketBreadthTracker.get_market_breadth (threshold 1.5)
FyersWebSocketBreadthTracker_get_market_breadth(ws_tracker) ==
    LET r == TrackerRatio(ws_tracker)
    IN  IF 2 * r.num >= 3 * r.den THEN "BULLISH"
        ELSE IF 3 * r.num <= 2 * r.den THEN "BEARISH"
        ELSE "NEUTRAL"

\* FyersWebSocketBreadthTracker.get_breadth_strength_score, in hundredths of
\* a point (rounded down)
FyersWebSocketBreadthTracker_get_breadth_strength_score(ws_tracker) ==
    LET r == TrackerRatio(ws_tracker)
        score == IF r.num >= r.den
                 THEN 5000 + Min(((r.num - r.den) * 2500) \div r.den, 5000)
                 ELSE ((r.num * 100 - 33 * r.den) * 5000) \div (67 * r.den)
    IN  Max(0, Min(10000, score))

\* the REST service and the tracker are asked about the same counts: each
\* gives <<ad_ratio, classification, strength score>>
CallBothSources ==
    /\ \E breadth_data \in BreadthInputs :
         LET ws_tracker == [advances |-> breadth_data.advances,
                            declines |-> breadth_data.declines]
         IN  returned' =
               [breadth_data |-> breadth_data,
                rest |-> <<calculate_breadth_ratio(breadth_data)[1],
                           get_market_breadth(breadth_data),
                           get_breadth_strength_score(breadth_data)>>,
                ws |-> <<TrackerRatio(ws_tracker),
                         FyersWebSocketBreadthTracker_get_market_breadth(ws_tracker),
                         FyersWebSocketBreadthTracker_get_breadth_strength_score(ws_tracker)>>]
    /\ pc' = "compared"
    /\ UNCHANGED strategy_vars

\* half a minute passes between two calls
TickBreadth ==
    /\ now < LastFetchTime
    /\ now' = now + 1
    /\ UNCHANGED <<pc, strategy_config, is_running, premarket_collected,
                   first_candle_tracked, market_state, premarket_data,
                   first_candle_data, positions, completed_trades, metrics,
                   breadth_service, opened, stop_runs, can_trade_result,
                   returned>>

NextBreadth ==
    CallFetch \/ CallCalculateBreadthRatio \/ CallBothSources \/ TickBreadth

SpecBreadth == InitBreadth /\ [][NextBreadth]_vars

\* C24: calculate_breadth_ratio does not divide by zero: with declines = 0
\* the ratio is computed with declines replaced by 1 (and advances = 0 by 1),
\* and the classification is BULLISH for a ratio of at least 1.5, BEARISH for
\* one of at most 1/1.5 and NEUTRAL otherwise.
C24_ZeroDeclinesGuarded ==
    pc = "calculated" =>
      LET ratio == returned.value[1]
          advances == IF returned.breadth_data.advances = 0
                      THEN 1 ELSE returned.breadth_data.advances
      IN  /\ ratio.den > 0
          /\ returned.breadth_data.declines = 0 =>
               (ratio.den = 1 /\ ratio.num = advances)
          /\ returned.breadth_data.declines # 0 =>
               (ratio.den = returned.breadth_data.declines /\ ratio.num = advances)
          /\ returned.value[2] =
               IF 10 * ratio.num >= 15 * ratio.den THEN "BULLISH"
               ELSE IF 15 * ratio.num <= 10 * ratio.den THEN "BEARISH"
               ELSE "NEUTRAL"

\* 150 advances against no decline have been classified with a ratio of 150
C24_Witness ==
    /\ pc = "calculated"
    /\ returned.breadth_data = [advances |-> 150, declines |-> 0]
    /\ returned.value = <<[num |-> 150, den |-> 1], "BULLISH">>

MaxTicks == 3

\* prices below, at and above an entry of 21600.00
TickPrices == {2159000, 2160000, 2165000, 2170000}

\* a position of 50 units entered at 21600.00, LONG or SHORT
TickPosition(signal_type) ==
    MMFSPosition(1,
        MMFSSignal("NIFTY",
                   IF signal_type = "LONG" THEN "GAP_UP_BREAKOUT" ELSE "GAP_UP_FAILURE",
                   signal_type, 2160000,
                   IF signal_type = "LONG" THEN 2157000 ELSE 2163000,
                   IF signal_type = "LONG" THEN 2165000 ELSE 2155000,
                   MIN_CONFIDENCE_SETUP1, time(9, 16)),
        50, time(9, 16), 5)

InitTicks ==
    /\ now = time(9, 16)
    /\ pc = "idle"
    /\ strategy_config = MainConfig
    /\ is_running = TRUE
    /\ premarket_collected = TRUE
    /\ first_candle_tracked = TRUE
    /\ market_state = InitMarketState
    /\ premarket_data = [x \in Symbols |-> None]
    /\ first_candle_data = [x \in Symbols |-> None]
    /\ \E signal_type \in {"LONG", "SHORT"} :
         positions = [x \in Symbols |->
                        IF x = "NIFTY" THEN TickPosition(signal_type) ELSE None]
    /\ completed_trades = <<>>
    /\ metrics = InitMetrics
    /\ breadth_service = InitBreadthService
    /\ opened = 1
    /\ stop_runs = 0
    /\ can_trade_result = <<FALSE, Message("not called", <<>>)>>
    /\ returned = <<>>

\* position.update_price(current_price); `returned` keeps the prices given
CallUpdatePrice ==
    /\ Len(returned) < MaxTicks
    /\ \E current_price \in TickPrices :
         /\ positions' = [positions EXCEPT
                            !["NIFTY"] = update_price(@, current_price)]
         /\ returned' = Append(returned, current_price)
    /\ pc' = "updated"
    /\ UNCHANGED <<now, strategy_config, is_running, premarket_collected,
                   first_candle_tracked, market_state, premarket_data,
                   first_candle_data, completed_trades, metrics,
                   breadth_service, opened, stop_runs, can_trade_result>>

NextTicks == CallUpdatePrice

SpecTicks == InitTicks /\ [][NextTicks]_vars

\* the largest of 0 and the moves of the prices of seq from entry_price, in
\* the direction sign (1: upwards, -1: downwards)
RECURSIVE LargestMove(_, _, _)
LargestMove(seq, entry_price, sign) ==
    IF seq = <<>> THEN 0
    ELSE Max(sign * (Head(seq) - entry_price),
             LargestMove(Tail(seq), entry_price, sign))

\* C26: after any sequence of update_price ticks max_favorable_excursion is
\* the largest favourable move from entry seen so far and
\* max_adverse_excursion the largest adverse move from entry seen so far,
\* both at least 0 and never decreasing; a LONG entered at 21600 that sees
\* 21650, 21590, 21650 has MFE = 50 and MAE = 10.
C26_ExcursionsFromEntry ==
    /\ [](LET p == positions["NIFTY"]
              up == IF p.signal_type = "LONG" THEN 1 ELSE -1
          IN  /\ p.max_favorable_excursion = LargestMove(returned, p.entry_price, up)
              /\ p.max_adverse_excursion = LargestMove(returned, p.entry_price, -up)
              /\ p.max_favorable_excursion >= 0
              /\ p.max_adverse_excursion >= 0
              /\ (p.signal_type = "LONG" /\ returned = <<2165000, 2159000, 2165000>>)
                   => (p.max_favorable_excursion = 5000 /\ p.max_adverse_excursion = 1000))
    /\ [][/\ positions'["NIFTY"].max_favorable_excursion
               >= positions["NIFTY"].max_favorable_excursion
          /\ positions'["NIFTY"].max_adverse_excursion
               >= positions["NIFTY"].max_adverse_excursion]_vars

\* the LONG position has seen 21650, 21590 and 21650
C26_Witness ==
    /\ pc = "updated"
    /\ positions["NIFTY"].signal_type = "LONG"
    /\ returned = <<2165000, 2159000, 2165000>>
    /\ positions["NIFTY"].max_favorable_excursion = 5000
    /\ positions["NIFTY"].max_adverse_excursion = 1000

(***************************************************************************)
(* MMFSStrategyMetrics.update_from_trade on sequences of trades            *)
(***************************************************************************)
\* the largest number of trades folded into the metrics
MaxFolded == 3

\* a position of 12 units entered at 1008.00
MetricsPosition(id, setup_type, signal_type) ==
    MMFSPosition(id,
        MMFSSignal("NIFTY", setup_type, signal_type, 100800,
                   IF signal_type = "LONG" THEN 100400 ELSE 101200,
                   IF signal_type = "LONG" THEN 101600 ELSE 100000,
                   MIN_CONFIDENCE_SETUP1, time(9, 16)),
        12, time(9, 16), 5)

\* the trades such positions end in: exits at 1004.00, 1008.00, 1009.00,
\* 1016.00 and 1020.00, by time, at the target or at the stop of the strategy
TradeInputs(id) ==
    { MMFSTradeResult(MetricsPosition(id, st[1], st[2]), exit_price, time(9, 18), exit_reason) :
        st \in {<<"GAP_UP_BREAKOUT", "LONG">>, <<"GAP_UP_FAILURE", "SHORT">>},
        exit_price \in {100400, 100800, 100900, 101600, 102000},
        exit_reason \in {"TIME_BASED", "TARGET", "STRATEGY_STOP"} }

InitMetricsFold ==
    /\ now = time(9, 18)
    /\ pc = "idle"
    /\ strategy_config = MainConfig
    /\ is_running = TRUE
    /\ premarket_collected = TRUE
    /\ first_candle_tracked = TRUE
    /\ market_state = InitMarketState
    /\ premarket_data = [x \in Symbols |-> None]
    /\ first_candle_data = [x \in Symbols |-> None]
    /\ positions = [x \in Symbols |-> None]
    /\ completed_trades = <<>>
    /\ metrics = InitMetrics
    /\ breadth_service = InitBreadthService
    /\ opened = 0
    /\ stop_runs = 0
    /\ can_trade_result = <<FALSE, Message("not called", <<>>)>>
    /\ returned = None

\* self.metrics.update_from_trade(trade); self.completed_trades.append(trade)
CallUpdateFromTrade ==
    /\ Len(completed_trades) < MaxFolded
    /\ \E trade \in TradeInputs(Len(completed_trades) + 1) :
         /\ metrics' = update_from_trade(metrics, trade)
         /\ completed_trades' = Append(completed_trades, trade)
    /\ pc' = "folded"
    /\ UNCHANGED <<now, strategy_config, is_running, premarket_collected,
                   first_candle_tracked, market_state, premarket_data,
                   first_candle_data, positions, breadth_service, opened,
                   stop_runs, can_trade_result, returned>>

NextMetricsFold == CallUpdateFromTrade

SpecMetricsFold == InitMetricsFold /\ [][NextMetricsFold]_vars

\* the sum of the net P&L of the trades of seq
RECURSIVE NetPnlSum(_)
NetPnlSum(seq) ==
    IF seq = <<>> THEN 0 ELSE Head(seq).net_pnl + NetPnlSum(Tail(seq))

\* the counters of the metrics
Counters(m) ==
    << m.total_trades, m.winning_trades, m.losing_trades, m.breakeven_trades,
       m.setup1_trades, m.setup1_wins, m.setup2_trades, m.setup2_wins,
       m.setup3_trades, m.setup3_wins, m.setup4_trades, m.setup4_wins,
       m.target_exits, m.stop_exits, m.time_exits, m.breakeven_exits,
       m.trades_by_minute[0], m.trades_by_minute[1], m.trades_by_minute[2],
       m.trades_by_minute[3], m.trades_by_minute[4] >>

\* C27: after folding N >= 1 trades with update_from_trade, total_trades is
\* N, win_rate is winning_trades / N x 100 with winning_trades the number of
\* trades whose net P&L is above 0, and expectancy is the sum of the net P&L
\* over N; no counter of the metrics decreases.
C27_MetricsFold ==
    /\ [](LET N == Len(completed_trades)
              wins == Cardinality({i \in 1..N : completed_trades[i].net_pnl > 0})
          IN  N >= 1 =>
                /\ metrics.total_trades = N
                /\ metrics.winning_trades = wins
                /\ metrics.win_rate.den > 0
                /\ metrics.win_rate.num * N = wins * 100 * metrics.win_rate.den
                /\ metrics.expectancy.den > 0
                /\ metrics.expectancy.num * N
                     = NetPnlSum(completed_trades) * metrics.expectancy.den)
    /\ [][\A i \in DOMAIN Counters(metrics) :
            Counters(metrics')[i] >= Counters(metrics)[i]]_vars

\* three trades have been folded: a winner, a trade with a gross profit
\* smaller than its costs, and a loser
C27_Witness ==
    /\ Len(completed_trades) = 3
    /\ completed_trades[1].net_pnl > 0
    /\ completed_trades[2].gross_pnl > 0
    /\ completed_trades[2].net_pnl < 0
    /\ completed_trades[3].gross_pnl < 0
    /\ metrics.total_trades = 3
    /\ metrics.winning_trades = 1
    /\ metrics.win_rate = [num |-> 100, den |-> 3]


(***************************************************************************)
(* HybridMarketBreadthService: REST quotes with a WebSocket tracker        *)
(***************************************************************************)
\* len(get_quick_breadth_symbols()): the stocks of BREADTH_BASKET_QUICK
QuickBasketSize == 15

\* what FyersMarketBreadthService._fetch_basket_quotes returns: None (bad
\* status, no quotes, exception) or the quotes, given by how many symbols
\* changed by more than +0.1 %, by more than -0.1 %, and by less
BasketQuotes ==
    {None} \cup
    { [up |-> q[1], down |-> q[2], flat |-> q[3]] :
        q \in { <<15, 0, 0>>, <<0, 15, 0>>, <<9, 6, 0>>, <<5, 5, 5>>,
                <<0, 0, 15>> } }

\* FyersMarketBreadthService._calculate_breadth_from_quotes
_calculate_breadth_from_quotes(quotes_data) ==
    LET total == quotes_data.up + quotes_data.down + quotes_data.flat
    IN  IF total = 0 THEN None
        ELSE [advances |-> quotes_data.up, declines |-> quotes_data.down,
              unchanged |-> quotes_data.flat, total |-> total,
              source |-> "fyers_api"]

\* FyersMarketBreadthService._get_fallback_breadth_data
FyersMarketBreadthService_get_fallback_breadth_data(svc) ==
    IF svc.last_breadth_data # None
    THEN svc.last_breadth_data
    ELSE [advances |-> QuickBasketSize \div 2,
          declines |-> QuickBasketSize \div 2,
          unchanged |-> 0, total |-> QuickBasketSize, is_fallback |-> TRUE]

\* FyersMarketBreadthService.fetch_advance_decline_data: <<service, data>>,
\* where quotes_data is what _fetch_basket_quotes returns
FyersMarketBreadthService_fetch_advance_decline_data(svc, t, quotes_data) ==
    IF _is_cache_valid(svc, t)
    THEN <<svc, svc.last_breadth_data>>
    ELSE IF quotes_data = None
    THEN <<svc, FyersMarketBreadthService_get_fallback_breadth_data(svc)>>
    ELSE LET breadth_data == _calculate_breadth_from_quotes(quotes_data)
         IN  IF breadth_data # None
             THEN <<[last_breadth_data |-> breadth_data,
                     last_update_time |-> t], breadth_data>>
             ELSE <<svc, FyersMarketBreadthService_get_fallback_breadth_data(svc)>>

\* FyersWebSocketBreadthTracker.__init__
InitWsTracker ==
    [is_running |-> FALSE, is_connected |-> FALSE, previous_closes |-> None,
     advances |-> 0, declines |-> 0, unchanged |-> 0, last_update |-> NoTime]

\* HybridMarketBreadthService.__init__
InitHybridService(enable_websocket) ==
    [enable_websocket |-> enable_websocket,
     rest_service |-> InitBreadthService,
     ws_tracker |-> IF enable_websocket THEN InitWsTracker ELSE None,
     use_websocket_data |-> FALSE]

\* FyersWebSocketBreadthTracker.start, followed by the two seconds
\* initialize waits: the socket runs, and has connected by then or not
WsStarted(ws_tracker, connected) ==
    [ws_tracker EXCEPT !.is_running = TRUE, !.is_connected = connected]

\* an initialize that fails when the WebSocket is not up after the wait
initialize_RequiresWebSocket(svc, t, first_quotes, quotes, connected, raised) ==
    LET f == FyersMarketBreadthService_fetch_advance_decline_data(
                 svc.rest_service, t, first_quotes)
        fetched == [svc EXCEPT !.rest_service = f[1]]
    IN  IF f[2] = None THEN <<fetched, FALSE>>
        ELSE IF raised THEN <<fetched, FALSE>>
        ELSE IF svc.enable_websocket /\ svc.ws_tracker # None
        THEN IF quotes # None
             THEN LET started ==
                        [fetched EXCEPT
                           !.ws_tracker =
                              WsStarted([@ EXCEPT !.previous_closes = quotes],
                                        connected)]
                  IN  IF connected
                      THEN <<[started EXCEPT !.use_websocket_data = TRUE], TRUE>>
                      ELSE <<started, FALSE>>
             ELSE <<fetched, FALSE>>
        ELSE <<fetched, TRUE>>

\* HybridMarketBreadthService.initialize: <<service, returned value>>, where
\* first_quotes and quotes are what the two calls of _fetch_basket_quotes
\* return, connected is ws_tracker.is_connected after the wait, and raised
\* says that a step after the first fetch raised an exception
initialize(svc, t, first_quotes, quotes, connected, raised) ==
    LET f == FyersMarketBreadthService_fetch_advance_decline_data(
                 svc.rest_service, t, first_quotes)
        fetched == [svc EXCEPT !.rest_service = f[1]]
    IN  IF f[2] = None THEN <<fetched, FALSE>>
        ELSE IF raised THEN <<fetched, FALSE>>
        ELSE IF svc.enable_websocket /\ svc.ws_tracker # None
        THEN IF quotes # None
             THEN LET started ==
                        [fetched EXCEPT
                           !.ws_tracker =
                              WsStarted([@ EXCEPT !.previous_closes = quotes],
                                        connected)]
                  IN  IF connected
                      THEN <<[started EXCEPT !.use_websocket_data = TRUE], TRUE>>
                      ELSE <<started, TRUE>>
             ELSE <<fetched, TRUE>>
        ELSE <<fetched, TRUE>>

\* FyersWebSocketBreadthTracker.get_breadth_data
get_breadth_data(ws_tracker) ==
    [advances |-> ws_tracker.advances, declines |-> ws_tracker.declines,
     unchanged |-> ws_tracker.unchanged,
     total |-> ws_tracker.advances + ws_tracker.declines + ws_tracker.unchanged,
     timestamp |-> ws_tracker.last_update, source |-> "websocket",
     is_connected |-> ws_tracker.is_connected]

\* ws_data.get('last_update'): the value under the key, None without the key
DictGet(dict, key) == IF key \in DOMAIN dict THEN dict[key] ELSE None

\* HybridMarketBreadthService.fetch_advance_decline_data: <<service, data>>
HybridMarketBreadthService_fetch_advance_decline_data(svc, t, quotes_data) ==
    LET rest == FyersMarketBreadthService_fetch_advance_decline_data(
                    svc.rest_service, t, quotes_data)
        from_rest == <<[svc EXCEPT !.rest_service = rest[1]], rest[2]>>
    IN  IF /\ svc.use_websocket_data
           /\ svc.ws_tracker # None
           /\ svc.ws_tracker.is_connected
        THEN LET ws_data == get_breadth_data(svc.ws_tracker)
             IN  IF /\ DictGet(ws_data, "last_update") \notin {None, NoTime}
                    /\ t - DictGet(ws_data, "last_update") < 2
                 THEN <<svc, ws_data>>
                 ELSE from_rest
        ELSE from_rest

\* HybridMarketBreadthService.get_breadth_summary: <<service, summary>>
get_breadth_summary(svc, t, quotes_data) ==
    LET f == HybridMarketBreadthService_fetch_advance_decline_data(
                 svc, t, quotes_data)
        data == f[2]
    IN  IF data = None
        THEN <<f[1], [available |-> FALSE, error |-> "No breadth data"]>>
        ELSE LET advances == data.advances
                 declines == IF data.declines > 0 THEN data.declines ELSE 1
                 num == IF data.declines > 0 THEN advances ELSE 1
             IN  <<f[1],
                   [available |-> TRUE,
                    advances |-> data.advances,
                    declines |-> data.declines,
                    unchanged |-> data.unchanged,
                    total |-> data.total,
                    classification |->
                       IF 2 * num >= 3 * declines THEN "BULLISH"
                       ELSE IF 3 * num <= 2 * declines THEN "BEARISH"
                       ELSE "NEUTRAL",
                    source |-> IF "source" \in DOMAIN data
                               THEN data.source ELSE "unknown",
                    websocket_active |->
                       IF svc.ws_tracker # None
                       THEN svc.use_websocket_data /\ svc.ws_tracker.is_connected
                       ELSE FALSE]>>

InitHybrid ==
    /\ now = time(9, 15)
    /\ pc = "idle"
    /\ strategy_config = MainConfig
    /\ is_running = FALSE
    /\ premarket_collected = FALSE
    /\ first_candle_tracked = FALSE
    /\ market_state = InitMarketState
    /\ premarket_data = [x \in Symbols |-> None]
    /\ first_candle_data = [x \in Symbols |-> None]
    /\ positions = [x \in Symbols |-> None]
    /\ completed_trades = <<>>
    /\ metrics = InitMetrics
    /\ \E enable_websocket \in BOOLEAN :
         breadth_service = InitHybridService(enable_websocket)
    /\ opened = 0
    /\ stop_runs = 0
    /\ can_trade_result = <<FALSE, Message("not called", <<>>)>>
    /\ returned = None

\* what the hybrid service's callers and callbacks leave alone
hybrid_unchanged == <<strategy_config, is_running, premarket_collected, first_candle_tracked, market_state, premarket_data, first_candle_data, positions, completed_trades, metrics, opened, stop_runs, can_trade_result>>

\* ok = service.initialize()
CallInitialize ==
    /\ pc = "idle"
    /\ \E first_quotes \in BasketQuotes, quotes \in BasketQuotes,
          connected \in BOOLEAN, raised \in BOOLEAN :
         LET i == initialize(breadth_service, now, first_quotes, quotes,
                             connected, raised)
             initial_data ==
                 FyersMarketBreadthService_fetch_advance_decline_data(
                     breadth_service.rest_service, now, first_quotes)[2]
         IN  /\ breadth_service' = i[1]
             /\ returned' = [initialize |->
                               [initial_data |-> initial_data,
                                quotes |-> quotes, connected |-> connected,
                                raised |-> raised, value |-> i[2]],
                             summary |-> None, call |-> None]
    /\ pc' = "initialized"
    /\ UNCHANGED <<now, hybrid_unchanged>>

\* FyersWebSocketBreadthTracker.on_connect, called by the socket's thread
WsOnConnect ==
    /\ breadth_service.ws_tracker # None
    /\ breadth_service.ws_tracker.is_running
    /\ ~breadth_service.ws_tracker.is_connected
    /\ breadth_service' =
         [breadth_service EXCEPT !.ws_tracker.is_connected = TRUE]
    /\ UNCHANGED <<now, pc, returned, hybrid_unchanged>>

\* FyersWebSocketBreadthTracker.on_close, called by the socket's thread
WsOnClose ==
    /\ breadth_service.ws_tracker # None
    /\ breadth_service.ws_tracker.is_running
    /\ breadth_service' =
         [breadth_service EXCEPT !.ws_tracker.is_running = FALSE,
                                 !.ws_tracker.is_connected = FALSE]
    /\ UNCHANGED <<now, pc, returned, hybrid_unchanged>>

\* the counts a recalculation over the basket can give
TickCounts == { <<9, 6, 0>>, <<0, 10, 5>> }

\* FyersWebSocketBreadthTracker.on_message, called by the socket's thread
\* with the price of a symbol: _recalculate_breadth counts the basket anew
\* and stamps last_update, unless no previous closes were set
WsOnMessage ==
    /\ breadth_service.ws_tracker # None
    /\ breadth_service.ws_tracker.is_connected
    /\ \E counts \in TickCounts :
         breadth_service' =
           IF breadth_service.ws_tracker.previous_closes = None
           THEN breadth_service
           ELSE [breadth_service EXCEPT !.ws_tracker.advances = counts[1],
                                        !.ws_tracker.declines = counts[2],
                                        !.ws_tracker.unchanged = counts[3],
                                        !.ws_tracker.last_update = now]
    /\ UNCHANGED <<now, pc, returned, hybrid_unchanged>>

\* summary = service.get_breadth_summary(); `returned` also keeps the state
\* of the tracker at the call and the data the service's fetch gave
CallGetBreadthSummary ==
    /\ pc \in {"initialized", "summarized"}
    /\ \E quotes_data \in BasketQuotes :
         LET s == get_breadth_summary(breadth_service, now, quotes_data)
             f == HybridMarketBreadthService_fetch_advance_decline_data(
                      breadth_service, now, quotes_data)
         IN  /\ breadth_service' = s[1]
             /\ returned' = [returned EXCEPT
                               !.summary = s[2],
                               !.call = [ws_tracker |-> breadth_service.ws_tracker,
                                         use_websocket_data |->
                                            breadth_service.use_websocket_data,
                                         t |-> now, data |-> f[2]]]
    /\ pc' = "summarized"
    /\ UNCHANGED <<now, hybrid_unchanged>>

\* half a minute passes between two calls
TickHybrid ==
    /\ now < LastFetchTime
    /\ now' = now + 1
    /\ UNCHANGED <<pc, breadth_service, returned, hybrid_unchanged>>

NextHybrid ==
    CallInitialize \/ WsOnConnect \/ WsOnClose \/ WsOnMessage
      \/ CallGetBreadthSummary \/ TickHybrid

SpecHybrid == InitHybrid /\ [][NextHybrid]_vars

\* the WebSocket was asked for and did not come up in initialize: a step did
\* not raise, and the quotes for it could not be fetched or the socket was
\* not connected after the wait
WebSocketFailed ==
    /\ returned # None
    /\ breadth_service.enable_websocket
    /\ ~returned.initialize.raised
    /\ (returned.initialize.quotes = None \/ ~returned.initialize.connected)

\* C28: initialize() returns False only when the initial REST fetch yields no
\* data or an exception occurs; when the WebSocket does not connect, or the
\* quotes for it cannot be fetched, initialize() returns True, the service
\* stays on REST data (use_websocket_data remains False, also when the socket
\* connects later) and every get_breadth_summary() reports available = True.
C28_WebSocketFailureNotFatal ==
    /\ returned # None /\ returned.initialize.value = FALSE
         => (returned.initialize.initial_data = None
             \/ returned.initialize.raised)
    /\ WebSocketFailed
         => /\ returned.initialize.value = TRUE
            /\ breadth_service.use_websocket_data = FALSE
            /\ returned.summary # None
                 => /\ returned.summary.available = TRUE
                    /\ returned.summary.websocket_active = FALSE
                    /\ returned.summary.source \in {"fyers_api", "unknown"}

\* the socket was not connected after the wait and connected later; the
\* summary asked for then is available and comes from REST
C28_Witness ==
    /\ WebSocketFailed
    /\ returned.initialize.quotes # None
    /\ ~returned.initialize.connected
    /\ returned.initialize.value = TRUE
    /\ breadth_service.ws_tracker.is_connected
    /\ pc = "summarized"
    /\ returned.summary.available = TRUE
    /\ returned.summary.source = "fyers_api"


\* C29: a monitoring tick closes, with reason TIME_BASED, every open position
\* whose holding duration has reached max_holding_minutes; the exit comes
\* before the breakeven test, so such a position is closed and not promoted,
\* and after a monitoring tick no open position has a holding duration of at
\* least max_holding_minutes.
C29_TimeExitBeforeBreakeven ==
    /\ [](pc = "sleep" =>
            \A x \in OpenSymbols : ~should_exit_by_time(positions[x], now))
    /\ [][MonitoringTick =>
            \A x \in OpenSymbols :
              should_exit_by_time(positions[x], now) =>
                /\ ClosedWith(x, "TIME_BASED")
                /\ positions'[x] = None]_vars

\* the tick at `now` closed a position that had just reached its holding
\* period, was in profit and had been held long enough for the breakeven
\* move without having been moved
C29_Witness ==
    /\ pc = "sleep"
    /\ strategy_config.max_holding_minutes
         = strategy_config.break_even_after_minutes
    /\ completed_trades # <<>>
    /\ LET trade == completed_trades[Len(completed_trades)]
       IN  /\ trade.exit_reason = "TIME_BASED"
           /\ trade.exit_time = now
           /\ trade.exit_time - trade.entry_time
                = 2 * strategy_config.max_holding_minutes
           /\ trade.exit_price > trade.entry_price
           /\ positions[trade.symbol] = None


(***************************************************************************)
(* MMFSStrategy._monitor_positions on a position of either direction       *)
(***************************************************************************)
\* how many prices the feed gives to the position
MaxPrices == 2

\* the prices the feed gives: below, at and above the entry at 1008.00
MonitorPrices == PriceChoices \cup {100800}

\* the last half minute at which the position is monitored
LastMonitorTime == time(9, 22)

\* the strategy after _execute_signal has opened a position at 09:16 from a
\* LONG signal or from a SHORT signal; no price has been given to it
InitMonitor ==
    /\ now = time(9, 16)
    /\ pc = "opened"
    /\ strategy_config = MainConfig
    /\ is_running = TRUE
    /\ premarket_collected = TRUE
    /\ first_candle_tracked = TRUE
    /\ market_state = InitMarketState
    /\ premarket_data = [x \in Symbols |-> None]
    /\ first_candle_data = [x \in Symbols |-> None]
    /\ \E st \in {<<"GAP_UP_BREAKOUT", "LONG">>, <<"GAP_UP_FAILURE", "SHORT">>} :
         positions = [x \in Symbols |->
                        IF x = "NIFTY" THEN MetricsPosition(1, st[1], st[2])
                        ELSE None]
    /\ completed_trades = <<>>
    /\ metrics = InitMetrics
    /\ breadth_service = InitBreadthService
    /\ opened = 1
    /\ stop_runs = 0
    /\ can_trade_result = <<FALSE, Message("not called", <<>>)>>
    /\ returned = <<>>

\* step 6 of an iteration of the main loop
CallMonitorPositions ==
    /\ \E x \in Symbols : positions[x] # None
    /\ Commit(_monitor_positions(Self, strategy_config, now))
    /\ pc' = "monitored"
    /\ UNCHANGED <<now, strategy_config>>

\* position.update_price(current_price); `returned` keeps the prices given
FeedPrice ==
    /\ positions["NIFTY"] # None
    /\ Len(returned) < MaxPrices
    /\ \E current_price \in MonitorPrices :
         /\ positions' = [positions EXCEPT
                            !["NIFTY"] = update_price(@, current_price)]
         /\ returned' = Append(returned, current_price)
    /\ pc' = "priced"
    /\ UNCHANGED <<now, strategy_config, is_running, premarket_collected,
                   first_candle_tracked, market_state, premarket_data,
                   first_candle_data, completed_trades, metrics,
                   breadth_service, opened, stop_runs, can_trade_result>>

\* half a minute passes
TickMonitor ==
    /\ now < LastMonitorTime
    /\ now' = now + 1
    /\ UNCHANGED <<pc, strategy_config, is_running, premarket_collected,
                   first_candle_tracked, market_state, premarket_data,
                   first_candle_data, positions, completed_trades, metrics,
                   breadth_service, opened, stop_runs, can_trade_result,
                   returned>>

NextMonitor == CallMonitorPositions \/ FeedPrice \/ TickMonitor

SpecMonitor == InitMonitor /\ [][NextMonitor]_vars

\* the price shows a profit of the position: above entry for a LONG, below
\* entry for a SHORT
ShowsProfit(p, price) ==
    IF p.signal_type = "LONG" THEN price > p.entry_price
    ELSE price < p.entry_price

C31_OneShotPhases ==
    [][/\ premarket_collected =>
            /\ premarket_collected'
            /\ premarket_data' = premarket_data
            /\ market_state'.symbols_analyzed = market_state.symbols_analyzed
       /\ market_state.premarket_data_collected =>
            /\ market_state'.premarket_data_collected
            /\ market_state'.advances = market_state.advances
            /\ market_state'.declines = market_state.declines
            /\ market_state'.ad_ratio = market_state.ad_ratio
            /\ market_state'.breadth_classification
                 = market_state.breadth_classification
            /\ market_state'.breadth_strength = market_state.breadth_strength
            /\ breadth_service' = breadth_service]_vars

\* start() was called at 09:14:00 and collected the pre-market data; the
\* iteration at 09:14:30, still in pre-market time, has left it alone, and so
\* have the iterations after the breadth update at 09:15:00
C31_Witness ==
    /\ pc = "sleep"
    /\ now = time(9, 16)
    /\ premarket_collected
    /\ market_state.premarket_data_collected
    /\ \A x \in Symbols : premarket_data[x] # None
    /\ market_state.symbols_analyzed = Cardinality(Symbols)
    /\ breadth_service.last_update_time = time(9, 15)


\* data.get('source', 'unknown')
SourceOf(data) == IF "source" \in DOMAIN data THEN data.source ELSE "unknown"

\* the tracker was connected at the call and its last update was less than
\* 60 seconds old
FreshAtCall(call) ==
    /\ call.ws_tracker # None
    /\ call.ws_tracker.is_connected
    /\ call.ws_tracker.last_update # NoTime
    /\ call.t - call.ws_tracker.last_update < 2

\* C32: HybridMarketBreadthService.fetch_advance_decline_data returns the
\* WebSocket tracker's data whenever the tracker is connected and its last
\* update is less than 60 seconds old, and the REST service's data in every
\* other case.
C32_WebSocketDataWhenFresh ==
    (returned # None /\ returned.call # None) =>
       IF FreshAtCall(returned.call)
       THEN returned.call.data = get_breadth_data(returned.call.ws_tracker)
       ELSE SourceOf(returned.call.data) # "websocket"

\* initialize found the socket connected, the tracker has counted a tick in
\* this half minute, and the fetch gave REST data
C32_FreshWebSocketDataIgnored ==
    /\ returned # None /\ returned.call # None
    /\ returned.call.use_websocket_data
    /\ FreshAtCall(returned.call)
    /\ returned.call.t = returned.call.ws_tracker.last_update
    /\ SourceOf(returned.call.data) = "fyers_api"


\* C33: in every reachable state the daily counters agree with the trade
\* history: trades_today = total_trades = the number of completed trades, and
\* daily_pnl = metrics.net_pnl = the sum of the net P&L of the completed
\* trades.
C33_CountersAgreeWithHistory ==
    /\ market_state.trades_today = Len(completed_trades)
    /\ metrics.total_trades = Len(completed_trades)
    /\ market_state.daily_pnl = NetPnlSum(completed_trades)
    /\ metrics.net_pnl = NetPnlSum(completed_trades)

\* two trades are closed, one by the monitoring tick and one by stop(), and
\* the day has a P&L
C33_Witness ==
    /\ Len(completed_trades) >= 2
    /\ \E i, j \in DOMAIN completed_trades :
         /\ completed_trades[i].exit_reason = "TIME_BASED"
         /\ completed_trades[j].exit_reason = "STRATEGY_STOP"
         /\ completed_trades[i].net_pnl # completed_trades[j].net_pnl
    /\ market_state.daily_pnl # 0
    /\ market_state.trades_today = Len(completed_trades)


\* C34: every closed trade is counted in exactly one exit-reason counter of
\* the metrics, the closes forced by stop() included: target_exits +
\* stop_exits + time_exits + breakeven_exits = total_trades.
C34_ExitCountersCoverTrades ==
    metrics.target_exits + metrics.stop_exits + metrics.time_exits
      + metrics.breakeven_exits = metrics.total_trades

\* stop() has closed the only position of the session and no exit-reason
\* counter has counted the trade
C34_StopCloseNotCounted ==
    /\ pc = "done"
    /\ Len(completed_trades) = 1
    /\ completed_trades[1].exit_reason = "STRATEGY_STOP"
    /\ metrics.total_trades = 1
    /\ metrics.target_exits = 0 /\ metrics.stop_exits = 0
    /\ metrics.time_exits = 0 /\ metrics.breakeven_exits = 0


\* the (advances, declines) pair stored in the market state
StoredCounts == [advances |-> market_state.advances, declines |-> market_state.declines]

\* C35: after _update_market_breadth the breadth snapshot of market_state is
\* consistent: ad_ratio, breadth_classification and breadth_strength are the
\* values derived from the stored advances and declines, also when the source
\* fails or recovers between the calls of one update.
C35_BreadthSnapshotConsistent ==
    market_state.premarket_data_collected =>
      /\ market_state.ad_ratio = calculate_breadth_ratio(StoredCounts)[1]
      /\ market_state.breadth_classification = get_market_breadth(StoredCounts)
      /\ market_state.breadth_strength = get_breadth_strength_score(StoredCounts)

\* the first fetch of the update failed and the next one succeeded: the
\* counts and the ratio are those of the neutral default, the strength and
\* the classification those of 150 advances to 100 declines
C35_MixedSnapshot ==
    /\ market_state.premarket_data_collected
    /\ market_state.advances = 100 /\ market_state.declines = 100
    /\ market_state.ad_ratio = [num |-> 100, den |-> 100]
    /\ market_state.breadth_classification = "BULLISH"
    /\ market_state.breadth_strength = 6250
    /\ breadth_service.last_breadth_data = [advances |-> 150, declines |-> 100]


\* C36: every GAP_UP_BREAKOUT (LONG) signal that is emitted has
\* stop_loss < entry_price < target_price, for every first candle and every
\* previous-day high.
C36_TargetAboveEntry ==
    pc = "evaluated" =>
      \A x \in OpenSymbols :
        positions[x].setup_type = "GAP_UP_BREAKOUT" =>
          /\ positions[x].stop_loss < positions[x].entry_price
          /\ positions[x].entry_price < positions[x].target_price

\* the first candle's high of 21595 is above the previous day's high of
\* 21590: the signal has its target below its entry
C36_TargetBelowEntry ==
    /\ pc = "evaluated"
    /\ positions["NIFTY"] # None
    /\ positions["NIFTY"].setup_type = "GAP_UP_BREAKOUT"
    /\ premarket_data["NIFTY"].prev_high = 2159000
    /\ positions["NIFTY"].entry_price = 2159500
    /\ positions["NIFTY"].stop_loss = 2156500
    /\ positions["NIFTY"].target_price = 2159000


\* C37: for the same advances and declines (declines = 0 included) the
\* WebSocket tracker and the REST breadth service give the same A/D ratio,
\* the same classification and the same strength score.
C37_SourcesAgree ==
    pc = "compared" =>
      /\ returned.rest[1].num * returned.ws[1].den
           = returned.ws[1].num * returned.rest[1].den
      /\ returned.rest[2] = returned.ws[2]
      /\ returned.rest[3] = returned.ws[3]

\* 100 advances and no decline: BULLISH with score 100 for the REST service,
\* NEUTRAL with score 50 for the tracker
C37_SourcesDisagree ==
    /\ pc = "compared"
    /\ returned.breadth_data = [advances |-> 100, declines |-> 0]
    /\ returned.rest = <<[num |-> 100, den |-> 1], "BULLISH", 10000>>
    /\ returned.ws = <<[num |-> 1, den |-> 1], "NEUTRAL", 5000>>


(***************************************************************************)
(* FyersWebSocketBreadthTracker: the socket's thread in on_message and a   *)
(* reader thread in get_breadth_data share the tracker without a lock      *)
(***************************************************************************)
\* how many messages the socket's thread processes
MaxMessages == 2

\* the counts the recalculation of message k finds over the symbols that
\* have a price by then: <<advances, declines, unchanged>>
Recalculation(k) == <<2 * k, k, k>>

\* the assignments that end _recalculate_breadth, in their order
TrackerStores == <<"advances", "declines", "unchanged", "last_update">>

\* the attributes get_breadth_data loads from the tracker, in their order:
\* three for total, three for ad_ratio (the last two only when declines > 0),
\* four for the dict
SnapshotLoads == <<"advances", "declines", "unchanged", "declines", "advances", "declines", "advances", "declines", "unchanged", "last_update">>

\* a tracker whose socket is connected and has the previous closes, before
\* the first message; the reader has not called
InitThreads ==
    /\ now = time(9, 16)
    /\ pc = "idle"
    /\ strategy_config = MainConfig
    /\ is_running = TRUE
    /\ premarket_collected = TRUE
    /\ first_candle_tracked = TRUE
    /\ market_state = InitMarketState
    /\ premarket_data = [x \in Symbols |-> None]
    /\ first_candle_data = [x \in Symbols |-> None]
    /\ positions = [x \in Symbols |-> None]
    /\ completed_trades = <<>>
    /\ metrics = InitMetrics
    /\ breadth_service = [advances |-> 0, declines |-> 0, unchanged |-> 0,
                          last_update |-> NoTime, message_count |-> 0,
                          thread |-> [stored |-> 0, locals |-> Recalculation(0)]]
    /\ opened = 0
    /\ stop_runs = 0
    /\ can_trade_result = <<FALSE, Message("not called", <<>>)>>
    /\ returned = [loads |-> <<>>, snapshot |-> None]

\* the socket's thread enters on_message with the price of a symbol and
\* _recalculate_breadth counts the basket into its local variables
OnMessage ==
    /\ breadth_service.thread.stored = 0
    /\ breadth_service.message_count < MaxMessages
    /\ breadth_service' =
         [breadth_service EXCEPT
            !.message_count = @ + 1,
            !.thread = [stored |-> 1,
                        locals |-> Recalculation(breadth_service.message_count + 1)]]
    /\ UNCHANGED <<now, pc, returned, hybrid_unchanged>>

\* the socket's thread executes the next of `self.advances = advances`,
\* `self.declines = declines`, `self.unchanged = unchanged` and
\* `self.last_update = datetime.now()`
RecalculateStore ==
    LET i == breadth_service.thread.stored
        value == IF i = 4 THEN now ELSE breadth_service.thread.locals[i]
    IN  /\ i \in 1..4
        /\ breadth_service' =
             [breadth_service EXCEPT
                ![TrackerStores[i]] = value,
                !.thread.stored = IF i = 4 THEN 0 ELSE i + 1]
        /\ UNCHANGED <<now, pc, returned, hybrid_unchanged>>

\* the reader thread, in get_breadth_data, loads the next attribute of the
\* tracker (the first load begins a call)
GetBreadthDataLoad ==
    LET loads == IF pc = "loading" THEN returned.loads ELSE <<>>
        i == Len(loads) + 1
        value == breadth_service[SnapshotLoads[i]]
        \* `if self.declines > 0 else 1.0`: the division is not evaluated
        loaded == IF i = 4 /\ value <= 0
                  THEN loads \o <<value, 1, 1>> ELSE Append(loads, value)
    IN  /\ i <= Len(SnapshotLoads)
        /\ returned' = [loads |-> loaded, snapshot |-> None]
        /\ pc' = "loading"
        /\ UNCHANGED <<now, breadth_service, hybrid_unchanged>>

\* get_breadth_data returns the dict built from what it has loaded
GetBreadthDataReturn ==
    LET l == returned.loads
    IN  /\ pc = "loading"
        /\ Len(l) = Len(SnapshotLoads)
        /\ returned' = [returned EXCEPT
                          !.snapshot =
                             [advances |-> l[7], declines |-> l[8],
                              unchanged |-> l[9],
                              total |-> l[1] + l[2] + l[3],
                              ad_ratio |-> IF l[4] > 0
                                           THEN [num |-> l[5], den |-> Max(l[6], 1)]
                                           ELSE [num |-> 1, den |-> 1],
                              timestamp |-> l[10],
                              source |-> "websocket"]]
        /\ pc' = "returned"
        /\ UNCHANGED <<now, breadth_service, hybrid_unchanged>>

NextThreads ==
    OnMessage \/ RecalculateStore \/ GetBreadthDataLoad \/ GetBreadthDataReturn

SpecThreads == InitThreads /\ [][NextThreads]_vars

\* C38: every snapshot get_breadth_data returns to a reader, while the
\* socket's thread processes messages, has advances, declines and unchanged
\* taken from one and the same recalculation.
C38_SnapshotFromOneRecalculation ==
    pc = "returned" =>
      \E k \in 0..breadth_service.message_count :
        <<returned.snapshot.advances, returned.snapshot.declines,
          returned.snapshot.unchanged>> = Recalculation(k)

\* the reader loaded advances after the first recalculation had stored it
\* and declines before that recalculation stored it
C38_TornSnapshot ==
    /\ pc = "returned"
    /\ returned.snapshot.advances = Recalculation(1)[1]
    /\ returned.snapshot.declines = Recalculation(0)[2]
    /\ returned.snapshot.unchanged = Recalculation(0)[3]


\* what can_take_trade answers in the current state, called as
\* _evaluate_setups calls it
CanTakeTradeNow ==
    can_take_trade(market_state, strategy_config.max_trades_per_day,
                   strategy_config.max_loss_per_day_pct,
                   strategy_config.portfolio_value)

\* C39: after each iteration of the loop market_state.is_execution_window is
\* True exactly while the clock is inside the 9:15-9:20 window, so
\* can_take_trade answers (False, "Outside execution window") before 9:15
\* and at or after 9:20.
C39_WindowFlagFollowsClock ==
    pc = "sleep" =>
      /\ market_state.is_execution_window <=> _is_execution_window(now)
      /\ ~_is_execution_window(now) =>
           CanTakeTradeNow = <<FALSE, Message("Outside execution window", <<>>)>>

\* at 09:21:00 the flag set during the window is still True and
\* can_take_trade allows a trade
C39_FlagStaysAfterWindow ==
    /\ pc = "sleep"
    /\ now = time(9, 21)
    /\ market_state.is_execution_window
    /\ CanTakeTradeNow = <<TRUE, Message("OK", <<>>)>>

====
